---- MODULE Spec2Model ----
(***************************************************************************)
(* The voice-intake bot (second-brain-telegram-bot) as a state machine of  *)
(* one conversation: the aiogram FSM state and session data of that        *)
(* conversation, the Google Sheets workbook, and one action per handler.   *)
(*                                                                         *)
(* Text is modelled at word level: a text is a sequence of tokens, a token *)
(* is a word or " " (a run of extra white space; the single space between *)
(* two words is implicit).  A cell of a sheet is a text, the empty string  *)
(* is << >>.  Russian words are written transliterated (the original is    *)
(* given in comments); "Obed" is the capitalised form of "obed".           *)
(***************************************************************************)
EXTENDS Naturals, Sequences, FiniteSets, TLC

VARIABLES
    fsm,      \* FSM state of the conversation (aiogram MemoryStorage)
    data,     \* FSM session data of the conversation: key -> value
    sheets,   \* the workbook: sheet name -> rows (row 1 is the header row)
    last,     \* what the last handler run did: [h, ev] (handler, its events in order)
    pin,      \* input of the pure function under check (function specifications)
    pout      \* its result

vars == <<fsm, data, sheets, last, pin, pout>>

(***************************************************************************)
(* Bounds of the model.                                                    *)
(***************************************************************************)
MaxRows == 1

(***************************************************************************)
(* Python helpers.                                                         *)
(***************************************************************************)
NoData == [k \in {} |-> <<>>]

\* dict.get(key, default)
Get(d, k, dflt) == IF k \in DOMAIN d THEN d[k] ELSE dflt

\* FSMContext.update_data(**u): the stored dict is updated in place, keys not
\* named keep their value
update_data(d, u) ==
    [k \in (DOMAIN d) \cup (DOMAIN u) |-> IF k \in DOMAIN u THEN u[k] ELSE d[k]]

\* a value under a name: With(v, LAMBDA x : e) is e with x standing for v
With(v, Body(_)) == Body(v)
With2(v, w, Body(_, _)) == Body(v, w)
With3(u, v, w, Body(_, _, _)) == Body(u, v, w)

\* the least and the greatest of a set of positions, 0 for the empty set
Lowest(S) == IF S = {} THEN 0 ELSE CHOOSE i \in S : \A j \in S : i <= j
Highest(S) == IF S = {} THEN 0 ELSE CHOOSE i \in S : \A j \in S : j <= i

\* a call f(..., **kwargs) binds iff every keyword is a parameter of f;
\* otherwise Python raises TypeError at the call
CallBinds(params, kwargs) == kwargs \subseteq params

RECURSIVE SeqOfSet(_)
SeqOfSet(S) ==
    IF S = {} THEN <<>>
    ELSE LET x == CHOOSE y \in S : TRUE IN <<x>> \o SeqOfSet(S \ {x})

Event(k, v) == [k |-> k, v |-> v]
Msg(v) == [k |-> "msg", v |-> v]
Appended(sheet, row) == [k |-> "append", v |-> <<sheet, row>>]

(***************************************************************************)
(* Tokens.                                                                 *)
(*   udali = удали, udalit = удалить, zadachu = задачу, zadacha = задача,  *)
(*   kofe = кофе, kupil = купил, kupit = купить, nuzhno = нужно,           *)
(*   pozvonit = позвонить, skolko = сколько, privet = привет,              *)
(*   vchera = вчера, a eshche = а еще, i = и, ideya = идея, video = видео, *)
(*   Zadachi = Задачи, Traty = Траты, Prochee = Прочее, data = дата,       *)
(*   sut = суть, prioritet = приоритет, vysokij = высокий,                 *)
(*   dolgo = a passage of 2500 characters                                  *)
(***************************************************************************)
IsSpace(w) == w = " "

\* str.lower() of one token
Lower(w) ==
    CASE w = "Obed"     -> "obed"
      [] w = "Kofe"     -> "kofe"
      [] w = "Zadachi"  -> "zadachi"
      [] w = "Traty"    -> "traty"
      [] w = "Prochee"  -> "prochee"
      [] w = "Inbox"    -> "inbox"
      [] w = "Settings" -> "settings"
      [] w = "Category" -> "category"
      [] w = "Data"     -> "data"
      [] w = "Sut"      -> "sut"
      [] w = "Prioritet" -> "prioritet"
      [] w = "Tekst"    -> "tekst"
      [] w = "Vysokij"  -> "vysokij"
      [] w = "Unknown"  -> "unknown"
      [] w = "Thinking" -> "thinking"
      [] w = "Udali"    -> "udali"
      [] w = "ASK"      -> "ask"
      [] w = "Srok"     -> "srok"
      [] w = "Alice"    -> "alice"
      [] w = "OTMENA"   -> "otmena"
      [] OTHER          -> w

LowerText(t) == [i \in 1..Len(t) |-> Lower(t[i])]

\* str.strip(): leading and trailing white space removed
RECURSIVE LStrip(_)
LStrip(t) == IF t # <<>> /\ IsSpace(Head(t)) THEN LStrip(Tail(t)) ELSE t

RECURSIVE RStrip(_)
RStrip(t) ==
    IF t # <<>> /\ IsSpace(t[Len(t)]) THEN RStrip(SubSeq(t, 1, Len(t) - 1)) ELSE t

Strip(t) == RStrip(LStrip(t))

\* The code tests keywords by substring (`keyword in text`): Keywords(w) is
\* the set of the keywords of the code that occur in the lower-case token w.
Keywords(w) ==
    CASE w = "udali"       -> {"udali"}
      [] w = "udalit"      -> {"udali", "udalit"}
      [] w = "zadachu"     -> {"zadach"}
      [] w = "zadachi"     -> {"zadach"}
      [] w = "zadacha"     -> {"zadach", "zadacha"}
      [] w = "kupil"       -> {"kupil"}
      [] w = "nuzhno"      -> {"nuzhno"}
      [] w = "pozvonit"    -> {"pozvon"}
      [] w = "skolko"      -> {"skolko"}
      [] w = "nikogda"     -> {"kogda"}
      [] w = "ideya"       -> {"ide", "ideya"}
      [] w = "video"       -> {"ide", "video"}
      [] w = "vchera"      -> {"vchera"}
      [] w = "vcherashnyuyu" -> {"vchera"}
      [] w = "pozavchera"  -> {"vchera", "pozavchera"}
      [] w = "zavtra"      -> {"zavtra"}
      [] w = "zavtrak"     -> {"zavtra"}
      [] w = "poslezavtra" -> {"zavtra", "poslezavtra"}
      [] w = "segodnya"    -> {"segodnya"}
      [] w = "traty"       -> {"trat"}
      [] w = "?"           -> {"?"}
      [] OTHER             -> {}

\* `any(keyword in text for keyword in keywords)`, text lower-cased by the caller
_contains_any(text, keywords) ==
    \E i \in 1..Len(text) : Keywords(Lower(text[i])) \cap keywords # {}

(***************************************************************************)
(* intent_service.py                                                       *)
(***************************************************************************)
DeleteVerbs == {"udali", "udalit", "uberi", "steret", "remove", "delete"}

QuestionWords ==
    {"vopros", "sprosi", "uznaj", "rasskazhi", "obyasni", "podskazhi", "pomogi",
     "pokazhi", "najdi", "napomni", "skolko", "pochemu", "zachem", "gde", "kogda"}

\* the lead words of the regex ^\s*(что|как|когда|...)\b
LeadWords ==
    {"chto", "kak", "kogda", "gde", "pochemu", "zachem", "skolko", "kakie",
     "kakaya", "kakoj", "kakih", "kakimi"}

LeadPhrases == {<<"est", "li">>, <<"mozhno", "li">>, <<"nuzhno", "li">>}

\* the regex ^\s*(lead word)\b and the phrases "est li", "mozhno li", "nuzhno li"
LeadsQuestion(t) ==
    \/ Len(t) >= 1 /\ Lower(t[1]) \in LeadWords
    \/ Len(t) >= 2 /\ <<Lower(t[1]), Lower(t[2])>> \in LeadPhrases

_strong_question_signal(text) ==
    \/ _contains_any(text, {"?"})
    \/ _contains_any(text, QuestionWords)
    \/ LeadsQuestion(LStrip(text))

\* fault: the question test comes before the delete test
_heuristic_intent_ask_first(text) ==
    IF _strong_question_signal(text) THEN [action |-> "ask", query |-> text]
    ELSE IF _contains_any(text, DeleteVerbs) THEN [action |-> "delete", query |-> text]
    ELSE [action |-> "none", query |-> <<>>]

\* None is modelled as the action "none"
_heuristic_intent(text) ==
    IF _contains_any(text, DeleteVerbs) THEN [action |-> "delete", query |-> text]
    ELSE IF _strong_question_signal(text) THEN [action |-> "ask", query |-> text]
    ELSE [action |-> "none", query |-> <<>>]

\* IntentService.detect; llm is the outcome of chat_json, [raised, action, query]:
\* raised is "no" (the object returned holds action and query), "raise" or
\* "raise_json".  The result has the same shape: detect has no try/except, an
\* exception of chat_json leaves detect.
detect(text, llm) ==
    With(_heuristic_intent(text), LAMBDA heuristic :
    IF heuristic.action # "none"
    THEN [raised |-> "no", action |-> heuristic.action, query |-> heuristic.query]
    ELSE IF llm.raised # "no"
    THEN [raised |-> llm.raised, action |-> "", query |-> <<>>]
    ELSE With(IF Lower(llm.action) \in {"add", "delete", "ask"} THEN Lower(llm.action)
              ELSE "add",
         LAMBDA action :
         IF action = "ask" /\ ~_strong_question_signal(text)
         THEN [raised |-> "no", action |-> "add", query |-> <<>>]
         ELSE [raised |-> "no", action |-> action, query |-> Strip(llm.query)]))

(***************************************************************************)
(* voice.py: text, header and row helpers                                  *)
(***************************************************************************)
\* " ".join(value.lower().split()): every word lowered, every run of white
\* space collapsed to the single (implicit) space
_normalize_text(value) == LowerText(SelectSeq(value, LAMBDA w : ~IsSpace(w)))

NotStar(w) == w # "*"

\* header.replace("*", "").strip()
_display_header(header) == Strip(SelectSeq(header, NotStar))

_clean_header(header) == Strip(SelectSeq(header, NotStar))

\* _display_header(header).lower().strip()
HeaderKey(header) == Strip(LowerText(_display_header(header)))

\* header.strip().endswith("*")
IsMandatory(header) == With(Strip(header), LAMBDA h : h # <<>> /\ h[Len(h)] = "*")

\* row[idx] if idx < len(row) else ""   (indices are 1-based in the model)
Cell(row, idx) == IF idx <= Len(row) THEN row[idx] ELSE <<>>

\* the list of (idx, display name) of the mandatory headers whose cell is blank
_get_missing_required(headers, row) ==
    With(SelectSeq([i \in 1..Len(headers) |-> i],
                   LAMBDA i : IsMandatory(headers[i]) /\ Strip(Cell(row, i)) = <<>>),
         LAMBDA idxs : [j \in 1..Len(idxs) |-> <<idxs[j], _display_header(headers[idxs[j]])>>])

\* "приоритет" in header.strip().lower()   (prioritet = приоритет)
_is_priority_header(header) ==
    \E i \in 1..Len(header) : Lower(header[i]) = "prioritet"

\* index of the first header whose display name, lowered, is in names; 0 for None
_find_header_index(headers, names) ==
    Lowest({i \in 1..Len(headers) : HeaderKey(headers[i]) \in names})

\* sut = суть, opisanie = описание, syroj tekst = сырой текст,
\* ishodnyj tekst = исходный текст, data = дата, data dobavleniya = дата
\* добавления, data vypolneniya = дата выполнения
SummaryNames == {<<"sut">>, <<"opisanie">>, <<"summary">>}

RawNames ==
    {<<"syroj", "tekst">>, <<"raw", "text">>, <<"original", "text">>,
     <<"ishodnyj", "tekst">>}

DupDateNames ==
    {<<"data">>, <<"data", "dobavleniya">>, <<"data", "vypolneniya">>, <<"date">>}

_get_value_by_headers(headers, row, names) ==
    With(_find_header_index(headers, names),
         LAMBDA idx : IF idx = 0 \/ idx > Len(row) THEN <<>> ELSE Strip(row[idx]))

_get_summary_value(headers, row) == _get_value_by_headers(headers, row, SummaryNames)

(***************************************************************************)
(* voice.py: the duplicate detector                                        *)
(***************************************************************************)
\* fault: only an empty left date counts as "no date"
_same_or_empty_left(left, right) ==
    IF left = <<>> THEN TRUE
    ELSE _normalize_text(left) = _normalize_text(right)

_same_or_empty(left, right) ==
    IF left = <<>> \/ right = <<>> THEN TRUE
    ELSE _normalize_text(left) = _normalize_text(right)

\* fault: the raw texts are not compared
_is_duplicate_summary_only(summary_new, raw_new, date_new, summary_old, raw_old, date_old) ==
    IF /\ summary_new # <<>>
       /\ summary_old # <<>>
       /\ _normalize_text(summary_new) = _normalize_text(summary_old)
    THEN _same_or_empty(date_new, date_old)
    ELSE FALSE

_is_duplicate(summary_new, raw_new, date_new, summary_old, raw_old, date_old) ==
    IF /\ summary_new # <<>>
       /\ summary_old # <<>>
       /\ _normalize_text(summary_new) = _normalize_text(summary_old)
    THEN _same_or_empty(date_new, date_old)
    ELSE IF /\ raw_new # <<>>
            /\ raw_old # <<>>
            /\ _normalize_text(raw_new) = _normalize_text(raw_old)
    THEN _same_or_empty(date_new, date_old)
    ELSE FALSE

\* default of the parameter `limit` of _find_duplicate
DupLimit == 50

\* is the stored row `old` (under the sheet's header row) a duplicate of `row`
RowIsDuplicate(headers, row, header_row, old) ==
    _is_duplicate(
        _get_value_by_headers(headers, row, SummaryNames),
        _get_value_by_headers(headers, row, RawNames),
        _get_value_by_headers(headers, row, DupDateNames),
        _get_value_by_headers(header_row, old, SummaryNames),
        _get_value_by_headers(header_row, old, RawNames),
        _get_value_by_headers(header_row, old, DupDateNames))

\* fault: every data row of the sheet is compared
_find_duplicate_all(readable, rows, headers, row, limit) ==
    IF ~readable \/ Len(rows) < 2 THEN 0
    ELSE Highest({i \in 2..Len(rows) : RowIsDuplicate(headers, row, rows[1], rows[i])})

\* _find_duplicate on the values `rows` of the sheet (readable = FALSE: the
\* read raised).  The result is the position in `rows` of the row the preview
\* describes, 0 for None: the newest duplicate among the last `limit` data rows.
_find_duplicate(readable, rows, headers, row, limit) ==
    IF ~readable \/ Len(rows) < 2 THEN 0
    ELSE Highest({i \in (IF Len(rows) - 1 > limit THEN Len(rows) - limit + 1 ELSE 2)..Len(rows) :
                     RowIsDuplicate(headers, row, rows[1], rows[i])})

(***************************************************************************)
(* voice.py: dates.  A date is its position in Calendar (consecutive       *)
(* days); 0 is None.                                                       *)
(***************************************************************************)
Calendar ==
    <<"31.01.2026", "01.02.2026", "02.02.2026", "03.02.2026", "04.02.2026">>

CalendarIso ==
    <<"2026-01-31", "2026-02-01", "2026-02-02", "2026-02-03", "2026-02-04">>

\* datetime.now(tz).date() of the run
Today == 3

\* the first position of x in seq, 0 when absent
PosIn(seq, x) ==
    IF \E i \in 1..Len(seq) : seq[i] = x
    THEN CHOOSE i \in 1..Len(seq) : seq[i] = x /\ \A j \in 1..(i - 1) : seq[j] # x
    ELSE 0

\* date.strftime("%d.%m.%Y")
strftime(d) == <<Calendar[d]>>

_parse_date_value(value) ==
    With(Strip(value), LAMBDA v :
        IF Len(v) # 1 THEN 0
        ELSE IF PosIn(Calendar, v[1]) # 0 THEN PosIn(Calendar, v[1])
        ELSE PosIn(CalendarIso, v[1]))

(***************************************************************************)
(* voice.py: the splitter of one utterance into items.                     *)
(* Punctuation is a token of its own, written right after its word.        *)
(***************************************************************************)
RECURSIVE Concat(_)
Concat(ss) == IF ss = <<>> THEN <<>> ELSE Head(ss) \o Concat(Tail(ss))

Words(t) == SelectSeq(t, LAMBDA w : w \notin {" ", ".", "!", "?", ",", "-", ":"})

\* str.strip(" ,.-")
TrimChars == {" ", ",", ".", "-"}

RECURSIVE LTrim(_)
LTrim(t) == IF t # <<>> /\ Head(t) \in TrimChars THEN LTrim(Tail(t)) ELSE t

RECURSIVE RTrim(_)
RTrim(t) ==
    IF t # <<>> /\ t[Len(t)] \in TrimChars THEN RTrim(SubSeq(t, 1, Len(t) - 1)) ELSE t

Trim(t) == RTrim(LTrim(t))

\* the pieces of t between the positions in `cuts`; a cut at i removes the
\* tokens i .. i + width[i] - 1
RECURSIVE Pieces(_, _, _)
Pieces(t, cuts, width) ==
    IF cuts = {} THEN <<t>>
    ELSE LET i == CHOOSE c \in cuts : \A d \in cuts : c <= d
             n == width[i]
             rest == SubSeq(t, i + n, Len(t))
             later == {c - (i + n - 1) : c \in {d \in cuts : d >= i + n}}
         IN <<SubSeq(t, 1, i - 1)>>
            \o Pieces(rest, later, [c \in later |-> width[c + (i + n - 1)]])

\* re.split(r"[.!?]\s+|\n", text)
SentenceCuts(t) ==
    {i \in 1..Len(t) : \/ t[i] = "\n"
                       \/ t[i] \in {".", "!", "?"} /\ i < Len(t)}

SentenceParts(t) == Pieces(t, SentenceCuts(t), [i \in SentenceCuts(t) |-> 1])

_split_sentences(text) ==
    With(SelectSeq(SentenceParts(text), LAMBDA part : Strip(part) # <<>>),
         LAMBDA kept : [i \in 1..Len(kept) |-> Strip(kept[i])])

ClauseMarkers ==
    << <<"takzhe">>, <<"takzhe", "ya">>, <<"tak", "zhe">>, <<"dopolnitelno">>,
       <<"krome", "togo">>, <<"a", "eshche">>, <<"i", "eshche">>,
       <<"i", "u", "menya">>, <<"i", "ya">>, <<"i", "takzhe">>, <<"plyus">> >>

MarkerAt(t, i, m) ==
    /\ i + Len(m) - 1 <= Len(t)
    /\ \A k \in 1..Len(m) : Lower(t[i + k - 1]) = m[k]

\* the alternative the regex takes at position i: the first of the list that matches
FirstMarkerAt(t, i) == Lowest({j \in 1..Len(ClauseMarkers) : MarkerAt(t, i, ClauseMarkers[j])})

RECURSIVE ClauseParts(_)
ClauseParts(t) ==
    With(Lowest({i \in 1..Len(t) : FirstMarkerAt(t, i) # 0}), LAMBDA i :
        IF i = 0 THEN <<t>>
        ELSE <<SubSeq(t, 1, i - 1)>>
             \o ClauseParts(SubSeq(t, i + Len(ClauseMarkers[FirstMarkerAt(t, i)]), Len(t))))

_split_clauses(text) ==
    With(SelectSeq(ClauseParts(text), LAMBDA part : Strip(part) # <<>>),
         LAMBDA kept : [i \in 1..Len(kept) |-> Trim(kept[i])])

_contains_keywords(text, keywords) ==
    \E i \in 1..Len(text) : Keywords(Lower(text[i])) \cap keywords # {}

_explicit_category_signals(text) ==
    (IF _contains_keywords(text, {"zadach", "zadacha", "sozvon", "pozvon", "nuzhno", "nado"})
     THEN {"task"} ELSE {})
    \cup
    (IF _contains_keywords(text, {"ide", "ideya", "mechta", "plan", "sozdat"})
     THEN {"idea"} ELSE {})
    \cup
    (IF _contains_keywords(text, {"potrat", "zaplatil", "kupil", "rashod", "rub", "dollar", "magazin"})
     THEN {"expense"} ELSE {})

\* the cuts of a split on the word "i" standing between two other tokens
AndCuts(t) == {i \in 2..(Len(t) - 1) : t[i] = "i"}

AndParts(t) ==
    With(SelectSeq(Pieces(t, AndCuts(t), [i \in AndCuts(t) |-> 1]),
                   LAMBDA part : Strip(part) # <<>>),
         LAMBDA kept : [i \in 1..Len(kept) |-> Trim(kept[i])])

_split_by_and_if_multi(text) ==
    IF Cardinality(_explicit_category_signals(text)) < 2 THEN <<text>>
    ELSE AndParts(text)

_keyword_score(text, keywords) ==
    Cardinality({k \in keywords : _contains_keywords(text, {k})})

\* the category "" stands for None
_classify_clause(text, task_category, idea_category, expense_category) ==
    With((IF task_category # ""
          THEN << <<_keyword_score(text, {"zadach", "zadacha", "nuzhno", "nado", "sozvon",
                                          "pozvon", "sdelat", "video"}), task_category>> >>
          ELSE <<>>)
         \o
         (IF idea_category # ""
          THEN << <<_keyword_score(text, {"ide", "ideya", "plan", "sozdat", "kurs", "klub",
                                          "mechta"}), idea_category>> >>
          ELSE <<>>)
         \o
         (IF expense_category # ""
          THEN << <<_keyword_score(text, {"potrat", "zaplatil", "kupil", "rashod", "rub",
                                          "dollar", "magazin"}), expense_category>> >>
          ELSE <<>>),
         LAMBDA scores :
         IF scores = <<>> THEN ""
         ELSE \* the first of the highest scores: the sort is stable
              With(CHOOSE i \in 1..Len(scores) :
                      /\ \A j \in 1..Len(scores) : scores[j][1] <= scores[i][1]
                      /\ \A j \in 1..(i - 1) : scores[j][1] < scores[i][1],
                   LAMBDA best : IF scores[best][1] <= 0 THEN "" ELSE scores[best][2]))

_split_task_part(text) ==
    With(IF PosIn(text, ":") # 0
         THEN Strip(SubSeq(text, PosIn(text, ":") + 1, Len(text)))
         ELSE text,
         LAMBDA t : With(AndParts(t),
                         LAMBDA parts : IF Len(parts) <= 1 THEN <<Strip(t)>> ELSE parts))

\* the first catalogue name holding one of the keywords, "" for None
_find_category_by_keywords(settings, keywords) ==
    With(Lowest({i \in 1..Len(settings) : Keywords(Lower(settings[i])) \cap keywords # {}}),
         LAMBDA i : IF i = 0 THEN "" ELSE settings[i])

TaskKeys == {"zadach", "task", "todo", "to-do"}
IdeaKeys == {"ide", "idea"}
ExpenseKeys == {"trat", "rashod", "expense", "spend"}

Item(category, text, source) == [category |-> category, text |-> text, source |-> source]

\* the items of one subpart of a clause
SubpartItems(subpart, task_category, idea_category, expense_category) ==
    With(_classify_clause(subpart, task_category, idea_category, expense_category),
         LAMBDA category :
         IF category = "" THEN <<>>
         ELSE IF category = task_category
         THEN With(_split_task_part(subpart),
                   LAMBDA subtasks :
                       [i \in 1..Len(subtasks) |-> Item(category, subtasks[i], "rule")])
         ELSE <<Item(category, Strip(subpart), "rule")>>)

PartItems(part, tc, ic, ec) ==
    With(_split_by_and_if_multi(part),
         LAMBDA subparts :
             Concat([i \in 1..Len(subparts) |-> SubpartItems(subparts[i], tc, ic, ec)]))

SentenceItems(sentence, tc, ic, ec) ==
    With(_split_clauses(sentence),
         LAMBDA parts : Concat([i \in 1..Len(parts) |-> PartItems(parts[i], tc, ic, ec)]))

_rule_based_items_from_transcript(transcript, settings) ==
    With3(_find_category_by_keywords(settings, TaskKeys),
          _find_category_by_keywords(settings, IdeaKeys),
          _find_category_by_keywords(settings, ExpenseKeys),
          LAMBDA task_category, idea_category, expense_category :
          IF task_category = "" /\ idea_category = "" /\ expense_category = "" THEN <<>>
          ELSE With(_split_sentences(transcript),
                    LAMBDA sentences :
                        Concat([i \in 1..Len(sentences) |->
                            SentenceItems(sentences[i], task_category, idea_category,
                                          expense_category)])))

_extract_sentence(text, keywords) ==
    With(SentenceParts(text), LAMBDA parts :
    With(Lowest({i \in 1..Len(parts) : _contains_keywords(parts[i], keywords)}),
         LAMBDA i : IF i = 0 THEN Strip(text) ELSE Strip(parts[i])))

\* the keywords _expand_item_text looks for, from the keywords in the category name
ExpandKeywords(keys) ==
    IF keys \cap {"trat", "rashod", "expense", "spend"} # {}
    THEN {"potrat", "kupil", "zaplatil", "rub", "dollar", "podpisk", "magazin"}
    ELSE IF keys \cap {"ide", "idea"} # {}
    THEN {"ide", "ideya", "hochu", "plan", "kurs", "zapustit", "sozdat"}
    ELSE IF keys \cap {"zadach", "task", "todo"} # {}
    THEN {"zadach", "nuzhno", "nado", "sdelat", "sozvon", "pozvon", "video"}
    ELSE {"nado", "nuzhno", "hochu", "potrat", "ide", "zadach"}

_expand_item_text(item_text, transcript, category) ==
    With2(IF Strip(item_text) # <<>> THEN Strip(item_text) ELSE Strip(transcript),
          _extract_sentence(transcript, ExpandKeywords(Keywords(Lower(category)))),
          LAMBDA text, expanded :
              IF Len(Words(expanded)) > Len(Words(text)) THEN expanded ELSE text)

EnsureTaskWords ==
    {"nado", "nuzhno", "zadach", "sdelat", "postavit", "video", "sozvon", "pozvon", "vstret"}
EnsureIdeaWords == {"ide", "ideya", "idea", "mechta", "plan", "sozdat"}
EnsureExpenseWords ==
    {"potrat", "zaplatil", "kupil", "rashod", "expense", "spend", "rub", "rubl", "dollar",
     "magazin"}

has_category(result, cat_name) == \E i \in 1..Len(result) : result[i].category = cat_name

EnsureOne(transcript, result, category, words) ==
    IF category # "" /\ _contains_keywords(transcript, words) /\ ~has_category(result, category)
    THEN Append(result, Item(category, _extract_sentence(transcript, words), "heuristic"))
    ELSE result

_ensure_expected_categories(transcript, settings, items) ==
    EnsureOne(transcript,
        EnsureOne(transcript,
            EnsureOne(transcript, items,
                      _find_category_by_keywords(settings, TaskKeys), EnsureTaskWords),
            _find_category_by_keywords(settings, IdeaKeys), EnsureIdeaWords),
        _find_category_by_keywords(settings, ExpenseKeys), EnsureExpenseWords)

\* the catalogue name whose lower-cased form is that of `category`, "" when none
Canonical(settings, category) ==
    With(Highest({i \in 1..Len(settings) : Lower(settings[i]) = Lower(category)}),
         LAMBDA i : IF category = "" \/ i = 0 THEN "" ELSE settings[i])

\* llm is the answer of the splitting call: [raised, items], an item being
\* [category, text] as the model wrote them
_split_multi_items(transcript, settings, llm) ==
    With(_rule_based_items_from_transcript(transcript, settings), LAMBDA rule_items :
    IF _explicit_category_signals(transcript) # {} /\ rule_items # <<>> THEN rule_items
    ELSE IF llm.raised \/ llm.items = <<>> THEN <<Item("", transcript, "")>>
    ELSE _ensure_expected_categories(transcript, settings,
            [i \in 1..Len(llm.items) |->
                Item(Canonical(settings, llm.items[i].category),
                     IF Strip(llm.items[i].text) # <<>> THEN Strip(llm.items[i].text)
                     ELSE transcript,
                     "")]))

\* an element of the answered list that is no JSON object (a string, a
\* number) is written [scalar |-> its text]: item.get (lines 1606-1607) raises
\* AttributeError on it, outside the try of _split_multi_items
SplitRaises(transcript, settings, llm) ==
    /\ ~(/\ _explicit_category_signals(transcript) # {}
         /\ _rule_based_items_from_transcript(transcript, settings) # <<>>)
    /\ ~llm.raised
    /\ \E i \in 1..Len(llm.items) : "scalar" \in DOMAIN llm.items[i]

(***************************************************************************)
(* voice.py: summary, text and date post-processing of an extracted row    *)
(***************************************************************************)
Punct == {".", "!", "?", ",", "-", ":", "..."}

\* characters of a token; "dolgo" stands for a passage of 2500 characters
WordLen(w) ==
    CASE w = "dolgo" -> 2500
      [] w = "..." -> 3
      [] w \in Punct \cup {" ", "\n", "*"} -> 1
      [] OTHER -> 5

\* the single space written between two tokens
Gap(a, b) == IF b \in Punct \/ a = "\n" \/ b = "\n" THEN 0 ELSE 1

RECURSIVE CharLen(_)
CharLen(t) ==
    IF t = <<>> THEN 0
    ELSE IF Len(t) = 1 THEN WordLen(t[1])
    ELSE CharLen(SubSeq(t, 1, Len(t) - 1)) + Gap(t[Len(t) - 1], t[Len(t)]) + WordLen(t[Len(t)])

\* text[:n], cut at a token boundary
RECURSIVE Prefix(_, _)
Prefix(t, n) ==
    IF t = <<>> \/ CharLen(t) <= n THEN t ELSE Prefix(SubSeq(t, 1, Len(t) - 1), n)



StartsWith(t, p) == Len(p) <= Len(t) /\ SubSeq(t, 1, Len(p)) = p
EndsWith(t, p) == Len(p) <= Len(t) /\ SubSeq(t, Len(t) - Len(p) + 1, Len(t)) = p

SummaryPrefixes ==
    << <<"slushaj">>, <<"a", "slushaj">>, <<"mne", "nado">>, <<"mne", "nuzhno">>, <<"nuzhno">>,
       <<"ya", "hochu">>, <<"hochu">>, <<"mozhesh">>, <<"mozhesh", "pozhalujsta">>,
       <<"pozhalujsta">>, <<"nado">> >>

SummarySuffixes ==
    << <<"mozhesh", "postavit", "zadachku">>, <<"mozhesh", "postavit", "zadachu">>,
       <<"postav", "zadachku">>, <<"postav", "zadachu">>, <<"dobav", "v", "zadachi">>,
       <<"dobav", "zadachu">>, <<"zapomni", "eto">>, <<"pozhalujsta">> >>

SummaryLimit == 160

RECURSIVE StripPrefixes(_)
StripPrefixes(summary) ==
    With(LStrip(LowerText(summary)), LAMBDA lowered :
    With(Lowest({i \in 1..Len(SummaryPrefixes) : StartsWith(lowered, SummaryPrefixes[i])}),
         LAMBDA i :
             IF i = 0 THEN summary
             ELSE StripPrefixes(LTrim(SubSeq(summary, Len(SummaryPrefixes[i]) + 1,
                                             Len(summary))))))

StripSuffix(summary) ==
    With(LowerText(summary), LAMBDA lowered :
    With(Lowest({i \in 1..Len(SummarySuffixes) : EndsWith(lowered, SummarySuffixes[i])}),
         LAMBDA i :
             IF i = 0 THEN summary
             ELSE RTrim(SubSeq(summary, 1, Len(summary) - Len(SummarySuffixes[i])))))

_make_summary(text) ==
    IF Strip(text) = <<>> THEN <<>>
    ELSE With(SelectSeq(StripSuffix(StripPrefixes(Strip(text))), LAMBDA w : ~IsSpace(w)),
         LAMBDA joined :
         With(IF CharLen(joined) > SummaryLimit
              THEN Append(Prefix(joined, SummaryLimit - 3), "...")
              ELSE joined,
              LAMBDA summary : IF summary # <<>> THEN summary ELSE text))

_apply_text_fields(headers, row, transcript) ==
    With2(_find_header_index(headers, RawNames), _find_header_index(headers, SummaryNames),
          LAMBDA raw_idx, summary_idx :
    With(IF raw_idx # 0 /\ raw_idx <= Len(row) THEN [row EXCEPT ![raw_idx] = transcript]
         ELSE row,
         LAMBDA row1 :
    With2(IF summary_idx # 0 THEN Strip(Cell(row1, summary_idx)) ELSE <<>>,
          IF raw_idx # 0 THEN Strip(Cell(row1, raw_idx)) ELSE <<>>,
          LAMBDA summary_value, raw_col_value :
          IF summary_idx # 0 /\ summary_idx <= Len(row1)
             /\ (\/ summary_value = <<>>
                 \/ _normalize_text(summary_value) = _normalize_text(Strip(transcript))
                 \/ _normalize_text(summary_value) = _normalize_text(raw_col_value))
          THEN [row1 EXCEPT ![summary_idx] = _make_summary(transcript)]
          ELSE row1)))

_extract_explicit_date(text) ==
    With2(Lowest({i \in 1..Len(text) : PosIn(Calendar, text[i]) # 0}),
          Lowest({i \in 1..Len(text) : PosIn(CalendarIso, text[i]) # 0}),
          LAMBDA dotted, iso :
              IF dotted # 0 THEN PosIn(Calendar, text[dotted])
              ELSE IF iso # 0 THEN PosIn(CalendarIso, text[iso])
              ELSE 0)

\* without the names of week days, which no utterance of the model holds
_extract_relative_date(text, today) ==
    IF _contains_keywords(text, {"poslezavtra"}) THEN today + 2
    ELSE IF _contains_keywords(text, {"zavtra"}) THEN today + 1
    ELSE IF _contains_keywords(text, {"segodnya"}) THEN today
    ELSE 0

AddedDateNames == {<<"data", "dobavleniya">>}
TargetDateNames == {<<"data", "vypolneniya">>, <<"data">>, <<"date">>, <<"due", "date">>}



_apply_date_fields(headers, row, transcript, today) ==
    With2(_extract_explicit_date(transcript), _extract_relative_date(transcript, today),
          LAMBDA date_explicit, date_relative :
    With(IF date_explicit # 0 THEN date_explicit ELSE date_relative, LAMBDA target_date :
        [idx \in 1..Len(row) |->
           IF idx <= Len(headers) /\ target_date # 0 /\ HeaderKey(headers[idx]) \in TargetDateNames
           THEN strftime(target_date)
           ELSE IF idx <= Len(headers) /\ HeaderKey(headers[idx]) \in AddedDateNames
           THEN strftime(today)
           ELSE row[idx]]))

(***************************************************************************)
(* voice.py: the long-message ("thinking") texts                           *)
(***************************************************************************)
\* a thinking structure: [summary, ideas, tasks, expenses, other]
_coerce_list(value) ==
    SelectSeq([i \in 1..Len(value) |-> Strip(value[i])], LAMBDA item : item # <<>>)

Bullets(items) == Concat([i \in 1..Len(items) |-> <<"\n", "-">> \o items[i]])

Section(title, items) ==
    IF items = <<>> THEN <<>> ELSE <<"\n", "\n", title>> \o Bullets(items)

\* "\n".join(parts).strip(): leading line breaks go
RECURSIVE StripLines(_)
StripLines(t) == IF t # <<>> /\ Head(t) \in {"\n", " "} THEN StripLines(Tail(t)) ELSE t

_format_thinking_blocks(structured) ==
    With(Strip(structured.summary), LAMBDA summary :
        StripLines(
            (IF summary # <<>> THEN <<"Korotko:">> \o summary ELSE <<>>)
            \o Section("Idei", _coerce_list(structured.ideas))
            \o Section("Potencialnye zadachi", _coerce_list(structured.tasks))
            \o Section("Traty", _coerce_list(structured.expenses))
            \o Section("Prochee", _coerce_list(structured.other))))

_build_thinking_inbox_text(structured, transcript) ==
    With(_format_thinking_blocks(structured), LAMBDA blocks :
        IF blocks # <<>>
        THEN Strip(blocks \o <<"\n", "\n", "Syroj tekst:", "\n">> \o transcript)
        ELSE Strip(transcript))

\* the structure _handle_thinking_mode builds when the structuring call raises
ThinkingFallback(transcript) ==
    [summary  |-> _make_summary(transcript),
     ideas    |-> <<>>,
     tasks    |-> <<>>,
     expenses |-> <<>>,
     other    |-> <<transcript>>]

(***************************************************************************)
(* sheets_service.py: the workbook.  sheets maps the title of each         *)
(* worksheet that exists to its rows.                                      *)
(***************************************************************************)
worksheet(book, sheet_name) == sheet_name \in DOMAIN book

get_headers(book, sheet_name) ==
    IF book[sheet_name] = <<>> THEN <<>> ELSE book[sheet_name][1]

get_all_values(book, sheet_name) == book[sheet_name]

append_row(book, sheet_name, values) ==
    [book EXCEPT ![sheet_name] = Append(@, values)]

\* fault: the index is taken as 0-based
delete_row_from_zero(book, sheet_name, row_index) ==
    IF row_index + 1 > Len(book[sheet_name]) THEN book
    ELSE [book EXCEPT ![sheet_name] =
             SubSeq(@, 1, row_index) \o SubSeq(@, row_index + 2, Len(@))]

delete_row(book, sheet_name, row_index) ==
    IF row_index > Len(book[sheet_name]) THEN book
    ELSE [book EXCEPT ![sheet_name] =
             SubSeq(@, 1, row_index - 1) \o SubSeq(@, row_index + 1, Len(@))]

\* the titles in the order the workbook lists them
SheetOrder == <<"Settings", "Zadachi", "Traty", "Prochee", "Inbox">>

list_worksheets(book) == SelectSeq(SheetOrder, LAMBDA name : name \in DOMAIN book)

\* a one-word cell as a name
NameOf(cell) == With(Strip(cell), LAMBDA name : IF name = <<>> THEN "" ELSE name[1])

\* load_settings: the names of the catalogue, in the order of the Settings rows
load_settings(book) ==
    With(SelectSeq(book["Settings"], LAMBDA row :
             /\ row # <<>>
             /\ NameOf(row[1]) # ""
             /\ Lower(NameOf(row[1])) \notin {"category", "kategoriya"}),
         LAMBDA named : [i \in 1..Len(named) |-> NameOf(named[i][1])])

(***************************************************************************)
(* router_service.py                                                       *)
(***************************************************************************)
\* the parameters of the two methods, and the keywords voice.py passes by name
classify_category_params ==
    {"self", "text", "settings", "user_prompt_template", "system_prompt"}

extract_row_params ==
    {"self", "text", "headers", "today_str", "user_prompt_template", "system_prompt"}

VoiceKeywords == {"model"}

\* llm is [raised, category]: the call raised (API error, bad JSON), or answered
classify_category(settings, llm) ==
    IF llm.raised # "no" THEN [raised |-> llm.raised, category |-> ""]
    ELSE With(Canonical(settings, llm.category), LAMBDA canonical :
             IF llm.category = "" \/ canonical = ""
             THEN [raised |-> "error", category |-> ""]
             ELSE [raised |-> "no", category |-> canonical])

_normalize(value) == LowerText(Strip(value))

\* normalized_headers: the last header of each normalised form owns it; 0 for none
HeaderOwner(headers, norm) ==
    Highest({k \in 1..Len(headers) : _normalize(headers[k]) = norm})

\* fault: the keys of the answer are matched as they are written
ExtractedValueExact(headers, today_str, pairs, header) ==
    With(Highest({i \in 1..Len(pairs) : pairs[i][1] = header}),
         LAMBDA i :
         With(IF i = 0 THEN <<>> ELSE pairs[i][2], LAMBDA value :
             IF _normalize(header) = <<"data">> /\ Strip(value) = <<>> THEN today_str
             ELSE value))

\* the cell of `header`: the last value the model gave for it, today's date
\* for a blank column named "data"
ExtractedValue(headers, today_str, pairs, header) ==
    With(Highest({i \in 1..Len(pairs) :
                     With(HeaderOwner(headers, _normalize(pairs[i][1])),
                          LAMBDA k : k # 0 /\ headers[k] = header)}),
         LAMBDA i :
         With(IF i = 0 THEN <<>> ELSE pairs[i][2], LAMBDA value :
             IF _normalize(header) = <<"data">> /\ Strip(value) = <<>> THEN today_str
             ELSE value))

\* llm is [raised, data]; data is a sequence of <<key, value>> pairs, a later
\* pair for the same header replacing an earlier one
extract_row(headers, today_str, llm) ==
    [raised |-> llm.raised,
     row |-> IF llm.raised # "no" THEN <<>>
             ELSE [i \in 1..Len(headers) |->
                      ExtractedValue(headers, today_str, llm.data, headers[i])]]

(***************************************************************************)
(* delete_service.py                                                       *)
(***************************************************************************)
IsDateToken(w) == PosIn(Calendar, w) # 0 \/ PosIn(CalendarIso, w) # 0

\* words of at most two characters
ShortWords == {"i", "a", "v", "u", "ya", "za", "2"}

\* re.findall(r"[a-zа-я0-9]+", w.lower()), the matches of more than two characters
TokensOf(w) ==
    IF IsDateToken(w) THEN <<"2026">>
    ELSE IF w \in Punct \cup {" ", "\n", "*"} \cup ShortWords THEN <<>>
    ELSE <<Lower(w)>>

_tokenize(text) == Concat([i \in 1..Len(text) |-> TokensOf(text[i])])

\* the tracked strings that are substrings of the lower-cased token
Substrings(w) ==
    IF IsDateToken(w) THEN {"2026"}
    ELSE Keywords(Lower(w)) \cup {Lower(w)} \cup (IF Lower(w) = "proverit" THEN {"pro"} ELSE {})

_score(tokens, text) ==
    Cardinality({i \in 1..Len(tokens) : \E k \in 1..Len(text) : tokens[i] \in Substrings(text[k])})

_STOP_WORDS ==
    {"udali", "udalit", "udalip", "udalenie", "za", "poslednie", "poslednij", "poslednyuyu",
     "poslednih", "den", "dnya", "dnej", "segodnya", "vchera", "pozavchera", "zadachi",
     "zadacha", "task", "tasks"}

NumberOf(w) == CASE w = "2" -> 2 [] w = "3" -> 3 [] OTHER -> 0
\* the words of the model that match последн\w* / last and дн\w* / days
IsLastWord(w) == Lower(w) \in {"poslednie", "poslednih", "last"}
IsDaysWord(w) == Lower(w) \in {"dnya", "dnej", "days"}

MaxDays == 365

Filters(sheet_keywords, start_date, end_date) ==
    [sheet_keywords |-> sheet_keywords, start_date |-> start_date, end_date |-> end_date]

SheetKeywords(query) ==
    (IF _contains_keywords(query, {"zadach", "task", "todo", "to-do"})
     THEN {"zadach", "task"} ELSE {})
    \cup (IF _contains_keywords(query, {"ide", "idea"}) THEN {"ide", "idea"} ELSE {})
    \cup (IF _contains_keywords(query, {"trat", "rashod", "expense", "spend"})
          THEN {"trat", "rashod", "expense", "spend"} ELSE {})

\* [sheet_keywords, start_date, end_date]; the date 0 is None
_infer_filters(query, today) ==
    With2(SheetKeywords(query),
          Lowest({i \in 1..(Len(query) - 2) :
                     /\ IsLastWord(query[i])
                     /\ NumberOf(query[i + 1]) # 0
                     /\ IsDaysWord(query[i + 2])}),
          LAMBDA sheet_keywords, span :
          IF _contains_keywords(query, {"vchera", "yesterday"})
          THEN Filters(sheet_keywords, today - 1, today - 1)
          ELSE IF _contains_keywords(query, {"pozavchera"})
          THEN Filters(sheet_keywords, today - 2, today - 2)
          ELSE IF span # 0
          THEN With(IF NumberOf(query[span + 1]) > MaxDays THEN MaxDays
                    ELSE NumberOf(query[span + 1]),
                    LAMBDA days : Filters(sheet_keywords, today - (days - 1), today))
          ELSE IF _contains_keywords(query, {"segodnya", "today"})
          THEN Filters(sheet_keywords, today, today)
          ELSE Filters(sheet_keywords, 0, 0))

_match_sheet(name, keywords) == Keywords(Lower(name)) \cap keywords # {}

DatePreferred ==
    << <<"data", "vypolneniya">>, <<"data">>, <<"data", "dobavleniya">>, <<"date">>,
       <<"due", "date">> >>

\* the first preferred name that is a header, at its first column; 0 for None
_find_date_index(headers) ==
    With([i \in 1..Len(headers) |-> _normalize(headers[i])], LAMBDA normalized :
    With(Lowest({k \in 1..Len(DatePreferred) : PosIn(normalized, DatePreferred[k]) # 0}),
         LAMBDA k : IF k = 0 THEN 0 ELSE PosIn(normalized, DatePreferred[k])))

_parse_date(value) ==
    IF Len(value) # 1 THEN 0
    ELSE IF PosIn(Calendar, value[1]) # 0 THEN PosIn(Calendar, value[1])
    ELSE PosIn(CalendarIso, value[1])

_extract_row_date(row, idx) ==
    IF idx = 0 \/ idx > Len(row) THEN 0 ELSE _parse_date(Strip(row[idx]))

_row_to_text(headers, row) ==
    Concat([i \in 1..Len(headers) |-> headers[i] \o <<":">> \o Cell(row, i)])

PreviewLimit == 400

_make_preview(sheet_name, headers, row) ==
    With(SelectSeq([i \in 1..Len(headers) |-> i], LAMBDA i : Strip(Cell(row, i)) # <<>>),
         LAMBDA filled :
    With(Concat([j \in 1..Len(filled) |->
             (IF j > 1 THEN <<";">> ELSE <<>>)
             \o headers[filled[j]] \o <<":">> \o row[filled[j]]]),
         LAMBDA pairs :
             <<sheet_name>> \o (IF CharLen(pairs) > PreviewLimit
                                THEN Append(Prefix(pairs, PreviewLimit - 3), "...")
                                ELSE pairs)))

DeleteCandidate(sheet_name, row_index, headers, row_values) ==
    [sheet_name |-> sheet_name, row_index |-> row_index, headers |-> headers,
     row_values |-> row_values, preview |-> _make_preview(sheet_name, headers, row_values)]

ExcludedSheets == {"settings", "prompts", "inbox", "botsettings"}

\* fault: without tokens every dated or undated row is kept
KeepsRowAny(headers, row, date_idx, tokens, filters) ==
    /\ \E c \in 1..Len(row) : Strip(row[c]) # <<>>
    /\ filters.start_date # 0 =>
          With(_extract_row_date(row, date_idx), LAMBDA row_date :
              row_date # 0 /\ row_date >= filters.start_date /\ row_date <= filters.end_date)
    /\ tokens # <<>> => _score(tokens, _row_to_text(headers, row)) > 0

\* the conditions of find_candidates under which a data row is a candidate
KeepsRow(headers, row, date_idx, tokens, filters) ==
    /\ \E c \in 1..Len(row) : Strip(row[c]) # <<>>
    /\ filters.start_date # 0 =>
          With(_extract_row_date(row, date_idx), LAMBDA row_date :
              row_date # 0 /\ row_date >= filters.start_date /\ row_date <= filters.end_date)
    /\ IF tokens # <<>>
       THEN _score(tokens, _row_to_text(headers, row)) > 0
       ELSE filters.start_date # 0 \/ filters.sheet_keywords # {}

\* the scored candidates of one sheet, in row order: <<score, candidate>>
SheetCandidates(book, name, tokens, filters) ==
    With(get_all_values(book, name), LAMBDA rows :
    IF Len(rows) < 2 THEN <<>>
    ELSE With(IF filters.start_date # 0 THEN _find_date_index(rows[1]) ELSE 0,
         LAMBDA date_idx :
         With(SelectSeq([i \in 1..Len(rows) |-> i],
                        LAMBDA i : i >= 2 /\ KeepsRow(rows[1], rows[i], date_idx, tokens, filters)),
              LAMBDA kept :
                  [j \in 1..Len(kept) |->
                      <<IF tokens # <<>> THEN _score(tokens, _row_to_text(rows[1], rows[kept[j]]))
                        ELSE 1,
                        DeleteCandidate(name, kept[j], rows[1], rows[kept[j]])>>])))

\* fault: the candidates stay in the order of the sheets
SortByScoreNone(scored, top) == scored

\* list.sort(key=score, reverse=True): stable, the highest score first
RECURSIVE SortByScore(_, _)
SortByScore(scored, top) ==
    IF top = 0 THEN <<>>
    ELSE SelectSeq(scored, LAMBDA sc : sc[1] = top) \o SortByScore(scored, top - 1)

find_candidates(book, query, today, limit) ==
    With2(SelectSeq(_tokenize(query), LAMBDA token : token \notin _STOP_WORDS),
          _infer_filters(query, today),
          LAMBDA tokens, filters :
    With(SelectSeq(list_worksheets(book), LAMBDA name :
             /\ Lower(name) \notin ExcludedSheets
             /\ filters.sheet_keywords # {} => _match_sheet(name, filters.sheet_keywords)),
         LAMBDA names :
    With(SortByScore(
             Concat([i \in 1..Len(names) |-> SheetCandidates(book, names[i], tokens, filters)]),
             Len(tokens) + 1),
         LAMBDA sorted :
             [i \in 1..(IF Len(sorted) < limit THEN Len(sorted) ELSE limit) |-> sorted[i][2]])))

DeleteDateNames ==
    {<<"data">>, <<"date">>, <<"data", "dobavleniya">>, <<"data", "vypolneniya">>,
     <<"due", "date">>}

\* << >> for None and for an empty cell
_get_date_value(headers, row) ==
    With(Lowest({i \in 1..Len(headers) :
                    _normalize(headers[i]) \in DeleteDateNames /\ i <= Len(row)}),
         LAMBDA i : IF i = 0 THEN <<>> ELSE Strip(row[i]))

\* a row of Inbox of the candidate's category and, when the candidate has one, date
InboxFits(row, sheet_name, target_date) ==
    /\ Len(row) >= 3
    /\ Strip(row[2]) = <<sheet_name>>
    /\ target_date # <<>> => Strip(row[1]) = target_date

\* the row of Inbox that _delete_from_inbox deletes, 0 when none
InboxMatch(book, candidate) ==
    With3(get_all_values(book, "Inbox"),
          _get_date_value(candidate.headers, candidate.row_values),
          _tokenize(Concat(candidate.row_values)),
          LAMBDA rows, target_date, candidate_tokens :
    With([i \in 1..Len(rows) |->
             IF i >= 2 /\ InboxFits(rows[i], candidate.sheet_name, target_date)
             THEN _score(candidate_tokens, Strip(rows[i][3]))
             ELSE 0],
         LAMBDA score :
             \* the first row of the best score
             Lowest({i \in 1..Len(rows) :
                        score[i] > 0 /\ \A j \in 1..Len(rows) : score[j] <= score[i]})))

\* delete_candidate: the workbook afterwards and inbox_deleted
delete_candidate(book, candidate) ==
    With(delete_row(book, candidate.sheet_name, candidate.row_index), LAMBDA book1 :
    With(InboxMatch(book1, candidate), LAMBDA hit :
        [book |-> IF hit # 0 THEN delete_row(book1, "Inbox", hit) ELSE book1,
         inbox_deleted |-> hit # 0]))

(***************************************************************************)
(* voice.py: the handlers.  A handler run is an operator from the session  *)
(* (f, d), the workbook and the inputs of the run to                       *)
(* [fsm, data, book, ev]; ev lists, in order, what the run did: the        *)
(* messages it showed, the rows it appended, the calls that raised.        *)
(***************************************************************************)
Idle == "none"
RequiredWaiting == "IntakeState:waiting_required"
DuplicateConfirming == "DuplicateState:confirming"
CategorySelecting == "CategoryState:selecting"
ThinkingWaiting == "ThinkingState:waiting_choice"
DeleteSelecting == "DeleteState:selecting"
DeleteConfirming == "DeleteState:confirming"

MAX_VOICE_SECONDS == 720
THINKING_MODE_SECONDS == 120
LONG_TRANSCRIPT_CHARS == 2500

\* limit=7 of the call of find_candidates
DeleteLimit == 7

Raised(what) == [k |-> "raise", v |-> what]

\* the exception a call left with: the TypeError of a call that does not bind,
\* or the failure of the service called
Failure(call, raised) == Raised(IF raised = "TypeError" THEN "TypeError" ELSE call)

Out(f, d, book, ev) == [fsm |-> f, data |-> d, book |-> book, ev |-> ev]

\* _safe_inbox: the audit row; a failure of the append is logged and swallowed
_safe_inbox(book, api, today_str, category, transcript) ==
    IF transcript = <<>> THEN [book |-> book, ev |-> <<>>]
    ELSE IF api # "ok" \/ ~worksheet(book, "Inbox")
    THEN [book |-> book, ev |-> <<Raised("inbox")>>]
    ELSE [book |-> append_row(book, "Inbox", <<today_str, <<category>>, transcript>>),
          ev |-> <<Appended("Inbox", <<today_str, <<category>>, transcript>>)>>]

ErrorText(kind) ==
    CASE kind = "json"    -> "bad_json"
      [] kind = "timeout" -> "ai_timeout"
      [] kind = "nosheet" -> "sheet_not_found"
      [] OTHER            -> "processing_error"

\* an except block of handle_voice: the report to the user, then the audit row
VoiceFails(f, d, book, api, kind, today_str, category, transcript, ev) ==
    With(_safe_inbox(book, api, today_str,
                     IF category # "" THEN category ELSE "Unknown", transcript),
         LAMBDA audit : Out(f, d, audit.book, ev \o <<Msg(ErrorText(kind))>> \o audit.ev))

\* llm is [raised, structured]
_handle_thinking_mode(f, d, book, transcript, today_str, llm, ev) ==
    Out(ThinkingWaiting,
        update_data(d, [thinking_structured |->
                            IF llm.raised THEN ThinkingFallback(transcript)
                            ELSE llm.structured,
                        thinking_transcript |-> transcript,
                        thinking_today_str  |-> today_str]),
        book,
        ev \o <<Msg("thinking_intro")>>
           \o (IF llm.raised THEN <<Raised("thinking")>> ELSE <<>>)
           \o <<Msg("thinking_prompt")>>)

_prompt_category_choice(f, d, book, categories, transcript, today_str, ev) ==
    IF categories = <<>> THEN Out(f, d, book, ev \o <<Msg("no_categories")>>)
    ELSE Out(CategorySelecting,
             update_data(d, [categories |-> categories,
                             transcript |-> transcript,
                             today_str  |-> today_str]),
             book,
             ev \o <<Msg("pick_category")>>)

\* what follows an extraction in handle_voice (lines 247-310) and in
\* pick_category (lines 662-726): the required-field check, the duplicate
\* check, the commit; `clear` is whether the commit clears the session
CommitOrSuspend(f, d, book, category, headers, row, transcript, today_str, clear, ev) ==
    With3(_get_missing_required(headers, row),
          _find_duplicate(TRUE, get_all_values(book, category), headers, row, DupLimit),
          update_data(d, [category |-> category, headers |-> headers, row |-> row,
                          transcript |-> transcript, today_str |-> today_str]),
          LAMBDA missing_required, dup, context :
          IF missing_required # <<>>
          THEN Out(RequiredWaiting,
                   update_data(context,
                       [missing_required_indices |->
                           [i \in 1..Len(missing_required) |-> missing_required[i][1]]]),
                   book,
                   ev \o <<Msg(IF Len(missing_required) = 1
                                  /\ _is_priority_header(missing_required[1][2])
                               THEN "ask_priority" ELSE "ask_required")>>)
          ELSE IF dup # 0
          THEN Out(DuplicateConfirming,
                   update_data(context,
                       [duplicate_preview |-> get_all_values(book, category)[dup]]),
                   book,
                   ev \o <<Msg("ask_duplicate")>>)
          ELSE Out(IF clear THEN Idle ELSE f,
                   IF clear THEN NoData ELSE d,
                   append_row(append_row(book, category, row), "Inbox",
                              <<today_str, <<category>>, transcript>>),
                   ev \o <<Appended(category, row),
                           Appended("Inbox", <<today_str, <<category>>, transcript>>),
                           Msg("saved")>>))

\* _process_multi_items, one item, in the steps of its loop body; acc is
\* [book, results, pending, ev]
MultiLine(acc, kind, category) == [acc EXCEPT !.results = Append(@, <<kind, category>>)]

\* lines 1667-1689: the required-field check, the duplicate check, the commit
MultiCommit(acc, category, headers, item_text, today_str, row) ==
    IF _get_missing_required(headers, row) # <<>>
    THEN [acc EXCEPT !.pending = Append(@,
             [category |-> category, headers |-> headers, row |-> row,
              transcript |-> item_text, today_str |-> today_str])]
    ELSE IF _find_duplicate(TRUE, get_all_values(acc.book, category), headers, row,
                            DupLimit) # 0
    THEN MultiLine(acc, "duplicate_skipped", category)
    ELSE [book    |-> append_row(append_row(acc.book, category, row), "Inbox",
                                 <<today_str, <<category>>, item_text>>),
          results |-> Append(acc.results, <<"saved", category>>),
          pending |-> acc.pending,
          ev      |-> acc.ev \o <<Appended(category, row),
                                  Appended("Inbox", <<today_str, <<category>>, item_text>>)>>]

\* lines 1657-1665: ext is what the call of extract_row gave
MultiRow(acc, category, headers, item_text, today_str, ext) ==
    IF ext.raised # "no"
    THEN [MultiLine(acc, "item_error", category) EXCEPT !.ev = Append(@, Failure("extract", ext.raised))]
    ELSE MultiCommit(acc, category, headers, item_text, today_str,
                     _apply_date_fields(headers,
                         _apply_text_fields(headers, ext.row, item_text), item_text, Today))

\* lines 1652-1663
MultiExtract(acc, category, headers, item_text, today_str, llm) ==
    IF headers = <<>> THEN MultiLine(acc, "sheet_missing", category)
    ELSE MultiRow(acc, category, headers, item_text, today_str,
                  IF CallBinds(extract_row_params, VoiceKeywords)
                  THEN extract_row([i \in 1..Len(headers) |-> _clean_header(headers[i])],
                                   today_str, llm.ext)
                  ELSE [raised |-> "TypeError", row |-> <<>>])

\* lines 1639-1655: cls is what the classification of the item gave
MultiClassified(acc, cls, item_text, today_str, llm) ==
    IF cls.raised # "no"
    THEN [acc EXCEPT !.results = Append(@, <<"category_failed", "">>),
                     !.ev = Append(@, Failure("classify", cls.raised))]
    ELSE IF ~worksheet(acc.book, cls.category)
    THEN [MultiLine(acc, "item_error", cls.category) EXCEPT !.ev = Append(@, Raised("sheets"))]
    ELSE MultiExtract(acc, cls.category, get_headers(acc.book, cls.category), item_text,
                      today_str, llm)

\* lines 1633-1646
MultiItem(acc, item, settings, full_transcript, today_str, llm) ==
    MultiClassified(acc,
        IF item.category # "" THEN [raised |-> "no", category |-> item.category]
        ELSE IF CallBinds(classify_category_params, VoiceKeywords)
        THEN classify_category(settings, llm.cls)
        ELSE [raised |-> "TypeError", category |-> ""],
        IF item.source # "rule"
        THEN _expand_item_text(item.text, full_transcript, item.category)
        ELSE item.text,
        today_str, llm)

\* a loop that gives up after its first item
MultiItemsFirst(acc, items, settings, full_transcript, today_str, llm) ==
    IF items = <<>> THEN acc
    ELSE MultiItem(acc, Head(items), settings, full_transcript, today_str, llm)

RECURSIVE MultiItems(_, _, _, _, _, _)
MultiItems(acc, items, settings, full_transcript, today_str, llm) ==
    IF items = <<>> THEN acc
    ELSE MultiItems(MultiItem(acc, Head(items), settings, full_transcript, today_str, llm),
                    Tail(items), settings, full_transcript, today_str, llm)

_process_multi_items(f, d, book, settings, items, full_transcript, today_str, llm, ev) ==
    With(MultiItems([book |-> book, results |-> <<>>, pending |-> <<>>, ev |-> ev],
                    items, settings, full_transcript, today_str, llm),
         LAMBDA acc :
         IF acc.pending # <<>>
         THEN Out(RequiredWaiting,
                  update_data(d, [pending_items |-> acc.pending, pending_index |-> 0,
                                  multi_results |-> acc.results]),
                  acc.book,
                  acc.ev \o <<Msg("ask_required_item")>>)
         ELSE Out(f, d, acc.book, acc.ev \o <<[k |-> "multi_done", v |-> acc.results]>>))

\* handle_voice, lines 231-310: the utterance is one item; ext is what the
\* call of extract_row gave
VoiceExtract(f, d, book, inp, transcript, today_str, category, headers, ext, ev) ==
    IF headers = <<>>
    THEN VoiceFails(f, d, book, inp.api, "error", today_str, category, transcript, ev)
    ELSE IF ext.raised # "no"
    THEN VoiceFails(f, d, book, inp.api, ext.raised, today_str, category, transcript,
                    ev \o <<Failure("extract", ext.raised)>>)
    ELSE CommitOrSuspend(f, d, book, category, headers,
                         _apply_date_fields(headers,
                             _apply_text_fields(headers, ext.row, transcript),
                             transcript, Today),
                         transcript, today_str, FALSE, ev)

\* handle_voice, lines 211-245: cls is what the classification gave
VoiceSingle(f, d, book, inp, settings, transcript, today_str, cls, ev) ==
    IF cls.raised # "no"
    THEN _prompt_category_choice(f, d, book, settings, transcript, today_str,
                                 ev \o <<Failure("classify", cls.raised)>>)
    ELSE IF ~worksheet(book, cls.category)
    THEN VoiceFails(f, d, book, inp.api, "nosheet", today_str, cls.category, transcript,
                    ev \o <<Raised("sheets")>>)
    ELSE VoiceExtract(f, d, book, inp, transcript, today_str, cls.category,
                      get_headers(book, cls.category),
                      IF CallBinds(extract_row_params, VoiceKeywords)
                      THEN extract_row([i \in 1..Len(get_headers(book, cls.category)) |->
                                           _clean_header(get_headers(book, cls.category)[i])],
                                       today_str, inp.ext)
                      ELSE [raised |-> "TypeError", row |-> <<>>],
                      ev)

\* handle_voice, lines 181-210: the add path
VoiceAdd(f, d, book, inp, transcript, today_str, settings, multi_items, ev) ==
    IF Len(multi_items) > 1
    THEN _process_multi_items(f, d, book, settings, multi_items, transcript, today_str, inp,
                              ev)
    ELSE VoiceSingle(f, d, book, inp, settings, transcript, today_str,
                     IF CallBinds(classify_category_params, VoiceKeywords)
                     THEN classify_category(settings, inp.cls)
                     ELSE [raised |-> "TypeError", category |-> ""],
                     ev)

\* handle_voice, lines 147-180: after the intent
VoiceIntent(f, d, book, inp, transcript, today_str, intent, ev) ==
    IF intent.raised # "no"
    THEN VoiceFails(f, d, book, inp.api, intent.raised, today_str, "", transcript,
                    ev \o <<Raised("intent")>>)
    ELSE IF intent.action = "ask"
    THEN IF inp.api # "ok" \/ inp.qa # "ok"
         THEN VoiceFails(f, d, book, inp.api, "error", today_str, "", transcript,
                         ev \o <<Msg("searching"), Raised("qa")>>)
         ELSE Out(f, d, book, ev \o <<Msg("searching"), Msg("answer")>>)
    ELSE IF inp.api # "ok"
    THEN VoiceFails(f, d, book, inp.api, "error", today_str, "", transcript,
                    ev \o <<Raised("sheets")>>)
    ELSE IF intent.action = "delete"
    THEN With(find_candidates(book, IF intent.query # <<>> THEN intent.query ELSE transcript,
                              Today, DeleteLimit),
              LAMBDA candidates :
                  IF candidates = <<>> THEN Out(f, d, book, ev \o <<Msg("nothing_to_delete")>>)
                  ELSE Out(DeleteSelecting, update_data(d, [candidates |-> candidates]), book,
                           ev \o <<Msg("delete_list")>>))
    ELSE IF ~worksheet(book, "Settings")
    THEN VoiceFails(f, d, book, inp.api, "nosheet", today_str, "", transcript,
                    ev \o <<Raised("sheets")>>)
    ELSE IF SplitRaises(transcript, load_settings(book), inp.split)
    THEN VoiceFails(f, d, book, inp.api, "error", today_str, "", transcript,
                    ev \o <<Raised("split")>>)
    ELSE VoiceAdd(f, d, book, inp, transcript, today_str, load_settings(book),
                  _split_multi_items(transcript, load_settings(book), inp.split), ev)

\* handle_voice; inp holds the inputs of the run: the voice message
\* (duration, media: what download and transcription did, transcript), api
\* (whether the workbook answers) and the answers of the language model
\* (intent, qa, split, thinking, cls, ext)
handle_voice(f, d, book, inp) ==
    IF inp.duration > MAX_VOICE_SECONDS
    THEN Out(f, d, book, <<Msg("processing"), Msg("too_long")>>)
    ELSE IF inp.media = "timeout"
    THEN VoiceFails(f, d, book, inp.api, "timeout", strftime(Today), "", <<>>,
                    <<Msg("processing")>>)
    ELSE IF inp.media # "ok" \/ inp.transcript = <<>>
    THEN VoiceFails(f, d, book, inp.api, "error", strftime(Today), "", <<>>,
                    <<Msg("processing")>>)
    ELSE IF \/ inp.duration >= THINKING_MODE_SECONDS
            \/ CharLen(inp.transcript) >= LONG_TRANSCRIPT_CHARS
    THEN _handle_thinking_mode(f, d, book, inp.transcript, strftime(Today), inp.thinking,
                               <<Msg("processing")>>)
    ELSE VoiceIntent(f, d, book, inp, inp.transcript, strftime(Today),
                     detect(inp.transcript, inp.intent), <<Msg("processing")>>)

\* the names bound when line 660 of pick_category runs: its parameters and
\* the locals assigned before; the module binds no today_date either
pick_category_names ==
    {"callback", "state", "data", "categories", "transcript", "today_str", "index",
     "category", "headers", "prompts", "extract_prompt", "bot_settings", "model",
     "clean_headers", "row"}

\* the except block of pick_category
PickFails(book, what) == Out(Idle, NoData, book, <<Raised(what), Msg("pick_failed")>>)

\* pick_category, lines 640-726
PickExtract(f, d, book, category, headers, transcript, today_str, llm) ==
    IF headers = <<>> THEN Out(Idle, NoData, book, <<Msg("no_headers")>>)
    ELSE IF ~CallBinds(extract_row_params, VoiceKeywords) THEN PickFails(book, "TypeError")
    ELSE With(extract_row([i \in 1..Len(headers) |-> _clean_header(headers[i])],
                          today_str, llm.ext),
         LAMBDA ext :
         IF ext.raised # "no" THEN PickFails(book, "extract")
         ELSE IF "today_date" \notin pick_category_names THEN PickFails(book, "NameError")
         ELSE CommitOrSuspend(f, d, book, category, headers,
                  _apply_date_fields(headers,
                      _apply_text_fields(headers, ext.row, transcript),
                      transcript,
                      IF _parse_date_value(today_str) # 0 THEN _parse_date_value(today_str)
                      ELSE Today),
                  transcript, today_str, TRUE, <<>>))

\* pick_category for the button cat:pick:<index> (index counts from 0)
pick_category(f, d, book, index, api, llm) ==
    With3(Get(d, "categories", <<>>), Get(d, "transcript", <<>>),
          Get(d, "today_str", strftime(Today)),
          LAMBDA categories, transcript, today_str :
          IF index >= Len(categories) THEN Out(f, d, book, <<Msg("bad_choice")>>)
          ELSE IF api # "ok" \/ ~worksheet(book, categories[index + 1])
          THEN PickFails(book, "sheets")
          ELSE PickExtract(f, d, book, categories[index + 1],
                           get_headers(book, categories[index + 1]), transcript, today_str,
                           llm))

\* fault: the session data survive the cancel
cancel_category_pick_keeps(f, d, book) == Out(Idle, d, book, <<Msg("cancelled")>>)

cancel_category_pick(f, d, book) == Out(Idle, NoData, book, <<Msg("cancelled")>>)

\* handle_thinking_choice for the button thinking:<action>
handle_thinking_choice(f, d, book, action, api) ==
    With(<<Get(d, "thinking_today_str", strftime(Today)),
           <<"Thinking">>,
           _build_thinking_inbox_text(Get(d, "thinking_structured", ThinkingFallback(<<>>)),
                                      Get(d, "thinking_transcript", <<>>))>>,
         LAMBDA row :
         IF action = "cancel" THEN Out(Idle, NoData, book, <<Msg("not_saved")>>)
         ELSE IF action # "save" THEN Out(f, d, book, <<Msg("unknown_action")>>)
         ELSE IF api # "ok" THEN Out(f, d, book, <<Raised("sheets")>>)
         ELSE IF worksheet(book, "Prochee")
         THEN Out(Idle, NoData, append_row(book, "Prochee", row),
                  <<Appended("Prochee", row), Msg("saved_other")>>)
         ELSE Out(Idle, NoData, append_row(book, "Inbox", row),
                  <<Raised("WorksheetNotFound"), Appended("Inbox", row), Msg("saved_inbox")>>))

(***************************************************************************)
(* delete.py: the handlers                                                 *)
(***************************************************************************)
cancel_delete(f, d, book) == Out(Idle, NoData, book, <<Msg("delete_cancelled")>>)

\* pick_delete for the button del:pick:<index> (index counts from 0)
pick_delete(f, d, book, index) ==
    With(Get(d, "candidates", <<>>), LAMBDA candidates :
        IF candidates = <<>> THEN Out(Idle, NoData, book, <<Msg("no_candidates")>>)
        ELSE IF index >= Len(candidates) THEN Out(f, d, book, <<Msg("bad_choice")>>)
        ELSE Out(DeleteConfirming, update_data(d, [selected_index |-> index]), book,
                 <<Msg("confirm_delete")>>))

back_to_list(f, d, book) ==
    IF Get(d, "candidates", <<>>) = <<>>
    THEN Out(Idle, NoData, book, <<Msg("no_candidates")>>)
    ELSE Out(DeleteSelecting, d, book, <<Msg("delete_list")>>)

\* the row of the sheet is deleted and the work on Inbox raises: neither
\* delete_candidate nor confirm_delete catches, the run ends there
DeleteThenRaise(f, d, book, candidate) ==
    Out(f, d, delete_row(book, candidate.sheet_name, candidate.row_index),
        <<[k |-> "delete", v |-> <<candidate.sheet_name, candidate.row_index>>],
          Raised("inbox")>>)

\* api: "ok"; "down" (the workbook does not answer); "inbox_read" (the read of
\* Inbox raises); "inbox_delete" (the delete of the Inbox row raises)
confirm_delete(f, d, book, api) ==
    With(Get(d, "candidates", <<>>), LAMBDA candidates :
    IF candidates = <<>> \/ "selected_index" \notin DOMAIN d
    THEN Out(Idle, NoData, book, <<Msg("no_candidates")>>)
    ELSE IF d["selected_index"] >= Len(candidates) THEN Out(f, d, book, <<Msg("bad_choice")>>)
    ELSE With(candidates[d["selected_index"] + 1], LAMBDA candidate :
         IF api = "down" \/ ~worksheet(book, candidate.sheet_name)
         THEN Out(f, d, book, <<Raised("sheets")>>)
         ELSE IF api = "inbox_read" \/ ~worksheet(book, "Inbox")
         THEN DeleteThenRaise(f, d, book, candidate)
         ELSE With(delete_candidate(book, candidate), LAMBDA done :
              IF api = "inbox_delete" /\ done.inbox_deleted
              THEN DeleteThenRaise(f, d, book, candidate)
              ELSE Out(Idle, NoData, done.book,
                  <<[k |-> "delete", v |-> <<candidate.sheet_name, candidate.row_index>>],
                    Msg(IF done.inbox_deleted THEN "deleted_both" ELSE "deleted_sheet")>>))))

(***************************************************************************)
(* The workbooks the runs start from, and the inputs of the handlers.      *)
(***************************************************************************)
Catalogue == <<"Zadachi", "Traty", "Prochee">>

SettingsSheet(names) ==
    << << <<"Category">>, <<"Description">> >> >>
    \o [i \in 1..Len(names) |-> << <<names[i]>>, <<>> >>]

ZadachiSheet ==
    << << <<"Data">>, <<"Sut">>, <<"Prioritet", "*">> >>,
       << <<"01.02.2026">>, <<"kupit", "kofe">>, <<"Vysokij">> >> >>

TratySheet == << << <<"Data">>, <<"Sut">> >> >>

InboxSheet == << << <<"Data">>, <<"Category">>, <<"Tekst">> >> >>

\* the sheet «Прочее» without and with a mandatory column
ProcheePlain == << << <<"Data">>, <<"Category">>, <<"Tekst">> >> >>
ProcheeStrict == << << <<"Data">>, <<"Category">>, <<"Tekst">>, <<"Prioritet", "*">> >> >>

Book(names, prochee) ==
    [n \in {"Settings", "Zadachi", "Traty", "Inbox"} \cup (IF prochee = <<>> THEN {} ELSE {"Prochee"})
        |-> CASE n = "Settings" -> SettingsSheet(names)
              [] n = "Zadachi"  -> ZadachiSheet
              [] n = "Traty"    -> TratySheet
              [] n = "Inbox"    -> InboxSheet
              [] OTHER          -> prochee]

Books ==
    {Book(Catalogue, prochee) : prochee \in {<<>>, ProcheePlain, ProcheeStrict}}
    \cup {Book(<<>>, ProcheePlain)}

Durations == {30, 120, 721}

ShortTranscripts ==
    {<<>>,
     <<"kupil", "kofe">>,
     <<"nuzhno", "pozvonit", "a", "eshche", "kupil", "kofe">>,
     <<"udali", "zadachu", "kofe">>,
     <<"skolko", "kofe", "?">>,
     <<"privet">>}

LongTranscripts == {<<"dolgo">>}

\* the utterances with no word the heuristics know: the language model decides
IntentProbes == {<<"privet">>}

IntentAnswers ==
    {[raised |-> "no", action |-> "add", query |-> <<>>],
     [raised |-> "no", action |-> "ask", query |-> <<>>],
     [raised |-> "no", action |-> "delete", query |-> <<"kofe">>],
     [raised |-> "error", action |-> "", query |-> <<>>],
     [raised |-> "json", action |-> "", query |-> <<>>]}

SplitAnswers ==
    {[raised |-> TRUE, items |-> <<>>],
     [raised |-> FALSE, items |-> <<>>],
     [raised |-> FALSE,
      items |-> << [category |-> "zadachi", text |-> <<"pozvonit">>],
                   [category |-> "Dom", text |-> <<>>] >>],
     [raised |-> FALSE, items |-> << [scalar |-> <<"pozvonit">>] >>]}

ThinkingAnswers ==
    {[raised |-> TRUE, structured |-> ThinkingFallback(<<>>)],
     [raised |-> FALSE,
      structured |-> [summary |-> <<"mysl">>, ideas |-> <<>>, tasks |-> << <<"pozvonit">> >>,
                      expenses |-> <<>>, other |-> <<>>]]}

ClsAnswers ==
    {[raised |-> "no", category |-> "zadachi"],
     [raised |-> "no", category |-> "Dom"],
     [raised |-> "timeout", category |-> ""]}

ExtAnswers ==
    {[raised |-> "no", data |-> << << <<"Sut">>, <<"kupit", "kofe">> >> >>],
     [raised |-> "no", data |-> << << <<"sut">>, <<"Kofe">> >>,
                                  << <<"Prioritet">>, <<"Vysokij">> >> >>],
     [raised |-> "json", data |-> <<>>]}

\* the answers that a run consults: a call that does not bind reaches no model
ClsConsulted == IF CallBinds(classify_category_params, VoiceKeywords) THEN ClsAnswers
                ELSE {[raised |-> "no", category |-> ""]}
ExtConsulted == IF CallBinds(extract_row_params, VoiceKeywords) THEN ExtAnswers
                ELSE {[raised |-> "no", data |-> <<>>]}

\* the answers of the calls a run does not make
NoThinking == [raised |-> TRUE, structured |-> ThinkingFallback(<<>>)]
NoSplit == [raised |-> TRUE, items |-> <<>>]

Quiet == [raised |-> "no", action |-> "add", query |-> <<>>]

Room(book) ==
    \A n \in {"Inbox", "Prochee"} \cap DOMAIN book : Len(book[n]) - 1 < MaxRows

\* no pure function is under check
NoCall == [op |-> "none"]

Apply(h, out) ==
    /\ fsm' = out.fsm
    /\ data' = out.data
    /\ sheets' = out.book
    /\ last' = [h |-> h, ev |-> out.ev]
    /\ UNCHANGED <<pin, pout>>

(***************************************************************************)
(* The actions: one per handler.                                           *)
(***************************************************************************)
Init ==
    /\ fsm = Idle
    /\ data = NoData
    /\ sheets \in Books
    /\ last = [h |-> "init", ev |-> <<>>]
    /\ pin = NoCall
    /\ pout = NoCall

\* a voice message arrives; handle_voice has no state filter
HandleVoice ==
    /\ Room(sheets)
    /\ \E duration \in Durations, media \in {"ok", "timeout", "error"} :
       \E transcript \in (IF duration > MAX_VOICE_SECONDS \/ media # "ok" THEN {<<>>}
                          ELSE IF duration >= THINKING_MODE_SECONDS THEN LongTranscripts
                          ELSE ShortTranscripts \cup LongTranscripts) :
       \E long \in {\/ duration >= THINKING_MODE_SECONDS
                    \/ CharLen(transcript) >= LONG_TRANSCRIPT_CHARS} :
       \E thinking \in (IF long /\ transcript # <<>> THEN ThinkingAnswers ELSE {NoThinking}),
          intent \in (IF ~long /\ transcript \in IntentProbes THEN IntentAnswers ELSE {Quiet}) :
       \E action \in {IF transcript = <<>> \/ long THEN ""
                      ELSE detect(transcript, intent).action} :
       \E api \in (IF transcript = <<>> \/ long THEN {"ok"} ELSE {"ok", "down"}),
          qa \in (IF action = "ask" THEN {"ok", "error"} ELSE {"ok"}),
          split \in (IF action = "add" /\ transcript \in IntentProbes THEN SplitAnswers
                     ELSE {NoSplit}),
          cls \in ClsConsulted, ext \in ExtConsulted :
          Apply("handle_voice",
                handle_voice(fsm, data, sheets,
                    [duration |-> duration, media |-> media, transcript |-> transcript,
                     api |-> api, intent |-> intent, qa |-> qa, split |-> split,
                     thinking |-> thinking, cls |-> cls, ext |-> ext]))

\* the button cat:pick:<index>
PickCategory ==
    /\ fsm = CategorySelecting
    /\ Room(sheets)
    /\ \E index \in 0..(Len(Catalogue) - 1), api \in {"ok", "down"}, ext \in ExtConsulted :
          Apply("pick_category", pick_category(fsm, data, sheets, index, api, [ext |-> ext]))

\* the button cat:cancel
CancelCategoryPick ==
    /\ fsm = CategorySelecting
    /\ Apply("cancel_category_pick", cancel_category_pick(fsm, data, sheets))

\* the buttons thinking:save and thinking:cancel
HandleThinkingChoice ==
    /\ fsm = ThinkingWaiting
    /\ Room(sheets)
    /\ \E action \in {"save", "cancel"}, api \in {"ok", "down"} :
          Apply("handle_thinking_choice",
                handle_thinking_choice(fsm, data, sheets, action, api))

\* the button del:cancel, shown with the list and with the confirmation; the
\* handler has no state filter, a button of an earlier list still works
CancelDelete ==
    /\ \/ fsm \in {DeleteSelecting, DeleteConfirming}
       \/ last.h \in {"cancel_delete", "pick_delete", "back_to_list", "confirm_delete"}
       \/ "candidates" \in DOMAIN data
    /\ Apply("cancel_delete", cancel_delete(fsm, data, sheets))

MaxPick == 2

\* the button del:pick:<index>; no state filter either
PickDelete ==
    /\ \/ fsm \in {DeleteSelecting, DeleteConfirming}
       \/ "candidates" \in DOMAIN data
    /\ \E index \in 0..(MaxPick - 1) :
          Apply("pick_delete", pick_delete(fsm, data, sheets, index))

\* the button del:back
BackToList ==
    /\ fsm = DeleteConfirming
    /\ Apply("back_to_list", back_to_list(fsm, data, sheets))

\* the button del:confirm; the failures of the work on Inbox are drawn in
\* SpecDelete
ConfirmDelete ==
    /\ fsm = DeleteConfirming
    /\ \E api \in {"ok", "down"} :
          Apply("confirm_delete", confirm_delete(fsm, data, sheets, api))

Next ==
    \/ HandleVoice
    \/ PickCategory
    \/ CancelCategoryPick
    \/ HandleThinkingChoice
    \/ CancelDelete
    \/ PickDelete
    \/ BackToList
    \/ ConfirmDelete

Spec == Init /\ [][Next]_vars

(***************************************************************************)
(* The duplicate detector as a function: the initial state draws the       *)
(* arguments, one action applies the function.                             *)
(***************************************************************************)
\* <<"obed", " ", "kofe">> is "obed  kofe"; <<" ">> is a string of white space
DupTexts == {<<>>, <<" ">>, <<"Obed", "kofe">>, <<"obed", " ", "kofe">>, <<"kofe">>}

DupRaws == {<<>>, <<"kofe">>, <<"Kofe">>}

DupDates == {<<>>, <<"01.02.2026">>, <<"02.02.2026">>}

IsDuplicateCalls ==
    {[op |-> "is_duplicate", new |-> <<sn, rn, dn>>, old |-> <<so, ro, do>>] :
        sn \in DupTexts, so \in DupTexts, rn \in DupRaws, ro \in DupRaws,
        dn \in DupDates, do \in DupDates}

DupHeaders ==
    { << <<"Data">>, <<"Sut">>, <<"syroj", "tekst">> >>,
      << <<"Sut", "*">>, <<" ", "data">> >> }

DupCells == {<<>>, <<"kofe">>, <<"Kofe", " ">>, <<"01.02.2026">>}

\* a stored row may be shorter than the header row
DupRows ==
    {<<>>} \cup {<<a>> : a \in DupCells} \cup {<<a, b, c>> : a \in DupCells, b \in DupCells, c \in DupCells}

FindDuplicateCalls ==
    {[op |-> "find_duplicate", headers |-> h, a |-> a, b |-> b] :
        h \in DupHeaders, a \in DupRows, b \in DupRows}

\* a sheet of n data rows; the rows numbered in `hits` repeat the new row up
\* to case and white space, the others hold something else
ScanHeaders == << <<"Data">>, <<"Sut">>, <<"syroj", "tekst">> >>
ScanNew == << <<"02.02.2026">>, <<"kofe">>, <<>> >>
ScanSame == << <<>>, <<"Kofe", " ">>, <<>> >>
ScanOther == << <<"02.02.2026">>, <<"moloko">>, <<>> >>

ScanSheet(n, hits) ==
    <<ScanHeaders>> \o [i \in 1..n |-> IF i \in hits THEN ScanSame ELSE ScanOther]

ScanSizes == {0, 1, DupLimit, DupLimit + 1, DupLimit + 2}

ScanHits == {{}, {1}, {2}, {1, 2}, {2, 10, 51}, {50}, {52}, {1, 52}}

ScanCalls ==
    {c \in [op : {"scan"}, n : ScanSizes, hits : ScanHits, readable : BOOLEAN] :
        c.hits \subseteq 1..c.n}

InitDup ==
    /\ fsm = Idle
    /\ data = NoData
    /\ sheets = Book(Catalogue, ProcheePlain)
    /\ last = [h |-> "init", ev |-> <<>>]
    /\ pin \in IsDuplicateCalls \cup FindDuplicateCalls \cup ScanCalls
    /\ pout = NoCall

\* _is_duplicate on the six values
IsDuplicate ==
    /\ pin.op = "is_duplicate"
    /\ pout.op = "none"
    /\ pout' = [op |-> "is_duplicate",
                v  |-> _is_duplicate(pin.new[1], pin.new[2], pin.new[3],
                                     pin.old[1], pin.old[2], pin.old[3])]
    /\ UNCHANGED <<fsm, data, sheets, last, pin>>

\* _find_duplicate for the new row a against a sheet that stores b, and for
\* the new row b against a sheet that stores a
FindDuplicate ==
    /\ pin.op = "find_duplicate"
    /\ pout.op = "none"
    /\ pout' = [op |-> "find_duplicate",
                ab |-> _find_duplicate(TRUE, <<pin.headers, pin.b>>, pin.headers, pin.a,
                                       DupLimit) # 0,
                ba |-> _find_duplicate(TRUE, <<pin.headers, pin.a>>, pin.headers, pin.b,
                                       DupLimit) # 0]
    /\ UNCHANGED <<fsm, data, sheets, last, pin>>

\* _find_duplicate with the default limit on a sheet of n data rows
ScanDuplicate ==
    /\ pin.op = "scan"
    /\ pout.op = "none"
    /\ pout' = [op |-> "scan",
                v  |-> _find_duplicate(pin.readable, ScanSheet(pin.n, pin.hits), ScanHeaders,
                                       ScanNew, DupLimit)]
    /\ UNCHANGED <<fsm, data, sheets, last, pin>>

NextDup ==
    \/ IsDuplicate
    \/ FindDuplicate
    \/ ScanDuplicate

SpecDup == InitDup /\ [][NextDup]_vars

(***************************************************************************)
(* What a handler run showed, raised and wrote.                            *)
(***************************************************************************)
Shows(ev, texts) == \E i \in 1..Len(ev) : ev[i].k = "msg" /\ ev[i].v \in texts

Raises(ev, whats) == \E i \in 1..Len(ev) : ev[i].k = "raise" /\ ev[i].v \in whats

\* the rows the run appended to a sheet other than the audit sheet Inbox
Commits(ev) == {i \in 1..Len(ev) : ev[i].k = "append" /\ ev[i].v[1] # "Inbox"}

ErrorTexts == {"processing_error", "bad_json", "ai_timeout", "sheet_not_found"}

(***************************************************************************)
(* The properties.                                                         *)
(***************************************************************************)
\* C1: no run appends a row to a category sheet while a mandatory cell
\* (header ending in "*") of that row is empty.  No run of the model holds
\* a skip (req:skip, the text skip), so the exception of the claim is void.
C1_CommitHasMandatoryCells ==
    \A i \in Commits(last.ev) :
        _get_missing_required(get_headers(sheets, last.ev[i].v[1]), last.ev[i].v[2]) = <<>>

\* equal after lowercasing and whitespace collapsing
SameNormalised(a, b) ==
    LowerText(SelectSeq(a, LAMBDA w : w # " ")) = LowerText(SelectSeq(b, LAMBDA w : w # " "))

\* the dates are equal or at least one is empty
DatesAgree(a, b) == a = <<>> \/ b = <<>> \/ SameNormalised(a, b)

\* C3 as stated: _is_duplicate is true exactly when (the summaries are equal
\* after normalisation and the dates agree) or (the raw texts are equal after
\* normalisation and the dates agree), for every combination of empty and
\* non-empty values.
C3_AsStated ==
    pout.op = "is_duplicate" =>
        (pout.v <=>
            \/ SameNormalised(pin.new[1], pin.old[1]) /\ DatesAgree(pin.new[3], pin.old[3])
            \/ SameNormalised(pin.new[2], pin.old[2]) /\ DatesAgree(pin.new[3], pin.old[3]))

\* C3, amended: _is_duplicate is true exactly when (both summaries are
\* non-empty and equal after normalisation, and the dates agree) or (both raw
\* texts are non-empty and equal after normalisation, and the dates agree).
C3_IsDuplicate ==
    pout.op = "is_duplicate" =>
        (pout.v <=>
            \/ /\ pin.new[1] # <<>>
               /\ pin.old[1] # <<>>
               /\ SameNormalised(pin.new[1], pin.old[1])
               /\ DatesAgree(pin.new[3], pin.old[3])
            \/ /\ pin.new[2] # <<>>
               /\ pin.old[2] # <<>>
               /\ SameNormalised(pin.new[2], pin.old[2])
               /\ DatesAgree(pin.new[3], pin.old[3]))

\* two rows without summary and without raw text, on the same day: not duplicates
C3_Witness ==
    /\ pout.op = "is_duplicate"
    /\ pin.new[1] = <<>> /\ pin.old[1] = <<>>
    /\ pin.new[2] = <<>> /\ pin.old[2] = <<>>
    /\ pin.new[3] = pin.old[3] /\ pin.new[3] # <<>>
    /\ ~pout.v

\* C4: over the same headers, row a is flagged against a sheet storing b
\* exactly when row b is flagged against a sheet storing a.
C4_Symmetric == pout.op = "find_duplicate" => (pout.ab <=> pout.ba)

\* two different rows flagged, one without a date
C4_Witness ==
    /\ pout.op = "find_duplicate"
    /\ pin.a # pin.b
    /\ _get_value_by_headers(pin.headers, pin.a, DupDateNames) = <<>>
    /\ _get_value_by_headers(pin.headers, pin.b, DupDateNames) # <<>>
    /\ pout.ab

\* the handlers of an explicit cancel; cancel_required (req:cancel) and the
\* cancel words of handle_required_fields are filtered on
\* IntakeState.waiting_required
CancelHandlers ==
    {"cancel_required", "handle_required_fields_cancel", "cancel_category_pick",
     "cancel_delete"}

C9_PickContinues ==
    /\ /\ last.h = "handle_voice"
       /\ Raises(last.ev, {"classify", "TypeError"})
       /\ \A i \in 1..Len(last.ev) : last.ev[i].k # "multi_done"
       /\ load_settings(sheets) # <<>>
       => /\ fsm = CategorySelecting
          /\ "categories" \in DOMAIN data
          /\ data.categories = load_settings(sheets)
    /\ last.h = "pick_category" =>
        \/ Shows(last.ev, {"bad_choice", "no_headers"})
        \/ Raises(last.ev, {"sheets", "extract"})
        \/ Shows(last.ev, {"saved", "ask_required", "ask_priority", "ask_duplicate"})

\* C10: a failure of the language-model call of the intent classifier is not
\* followed by an error report: the run goes on as for the action add.
C10_IntentFailureAdds ==
    \A i \in 1..Len(last.ev) :
        last.ev[i].k = "raise" /\ last.ev[i].v = "intent" =>
            /\ i < Len(last.ev)
            /\ ~(last.ev[i + 1].k = "msg" /\ last.ev[i + 1].v \in ErrorTexts)

\* the attempts of a run to write the audit row: the append, or its failure
AuditAttempts(ev) ==
    {i \in 1..Len(ev) : \/ ev[i].k = "append" /\ ev[i].v[1] = "Inbox"
                        \/ ev[i].k = "raise" /\ ev[i].v = "inbox"}

\* the reports of a failure to the user
FailureReports(ev) ==
    {i \in 1..Len(ev) : ev[i].k = "msg" /\ ev[i].v \in ErrorTexts \cup {"pick_failed"}}

\* C11: when a run that holds a transcript fails (a call raised in
\* handle_voice, or the pick of a category failed), the audit row is attempted
\* before the failure is reported.  A run of handle_voice whose download or
\* transcription failed holds no transcript and raises no event.
C11_AuditBeforeReport ==
    (last.h = "pick_category" \/ (last.h = "handle_voice" /\ Raises(last.ev,
        {"intent", "qa", "sheets", "classify", "extract", "split", "TypeError"})))
    => \A i \in FailureReports(last.ev) : \E j \in AuditAttempts(last.ev) : j < i

\* the audit rows a run appended for a category: (date, category, transcript)
AuditRows(ev, category) ==
    {j \in 1..Len(ev) : /\ ev[j].k = "append"
                        /\ ev[j].v[1] = "Inbox"
                        /\ Len(ev[j].v[2]) = 3
                        /\ ev[j].v[2][2] = <<category>>}

\* C13: a run that appends a row to a category sheet appends exactly one
\* audit row (date, that category, transcript) to Inbox.
C13_CommitHasAuditRow ==
    \A i \in Commits(last.ev) : Cardinality(AuditRows(last.ev, last.ev[i].v[1])) = 1

(***************************************************************************)
(* The splitter and the loop over the items as functions of their inputs:  *)
(* the calls handle_voice makes at lines 191-210                           *)
(***************************************************************************)
SplitTranscripts ==
    (ShortTranscripts \ {<<>>})
    \cup {<<"nuzhno", "pozvonit", "i", "kupit", "kofe">>,
          <<"nuzhno", "pozvonit", ".", "nuzhno", "kupit", "kofe">>,
          <<"ideya", "kanal">>}

SplitBooks == Books \cup {Book(<<"Prochee">>, ProcheePlain)}

SplitCalls ==
    {[op |-> "split", book |-> b, transcript |-> t, llm |-> a] :
        b \in SplitBooks, t \in SplitTranscripts, a \in SplitAnswers}

\* the calls of _process_multi_items: the splitter returned more than one item
MultiCalls ==
    {c \in [op : {"multi"}, book : SplitBooks, transcript : SplitTranscripts,
            llm : SplitAnswers, cls : ClsConsulted, ext : ExtConsulted] :
        /\ ~SplitRaises(c.transcript, load_settings(c.book), c.llm)
        /\ Len(_split_multi_items(c.transcript, load_settings(c.book), c.llm)) > 1}

InitSplit ==
    /\ fsm = Idle
    /\ data = NoData
    /\ sheets = Book(Catalogue, ProcheePlain)
    /\ last = [h |-> "init", ev |-> <<>>]
    /\ pin \in SplitCalls \cup MultiCalls
    /\ pout = NoCall

\* _split_multi_items on a transcript, the catalogue of a workbook and an
\* answer of the language model
SplitMultiItems ==
    /\ pin.op = "split"
    /\ pout.op = "none"
    /\ pout' = [op     |-> "split",
                raised |-> SplitRaises(pin.transcript, load_settings(pin.book), pin.llm),
                items  |-> IF SplitRaises(pin.transcript, load_settings(pin.book), pin.llm)
                           THEN <<>>
                           ELSE _split_multi_items(pin.transcript, load_settings(pin.book),
                                                   pin.llm)]
    /\ UNCHANGED <<fsm, data, sheets, last, pin>>

\* _process_multi_items on the items the splitter returned
ProcessMultiItems ==
    /\ pin.op = "multi"
    /\ pout.op = "none"
    /\ pout' = [op    |-> "multi",
                items |-> _split_multi_items(pin.transcript, load_settings(pin.book), pin.llm),
                out   |-> _process_multi_items(Idle, NoData, pin.book,
                              load_settings(pin.book),
                              _split_multi_items(pin.transcript, load_settings(pin.book),
                                                 pin.llm),
                              pin.transcript, strftime(Today),
                              [cls |-> pin.cls, ext |-> pin.ext], <<>>)]
    /\ UNCHANGED <<fsm, data, sheets, last, pin>>

NextSplit ==
    \/ SplitMultiItems
    \/ ProcessMultiItems

SpecSplit == InitSplit /\ [][NextSplit]_vars

\* the result lines and the suspended items a run of the loop left
MultiResults(out) ==
    IF out.fsm = RequiredWaiting THEN out.data.multi_results ELSE out.ev[Len(out.ev)].v
MultiPending(out) ==
    IF out.fsm = RequiredWaiting THEN out.data.pending_items ELSE <<>>

\* the lines that report a failed item, and the exceptions the loop caught
FailureLines(results) ==
    {k \in 1..Len(results) : results[k][1] \in {"category_failed", "item_error"}}
Caught(ev) == {i \in 1..Len(ev) : ev[i].k = "raise"}

IsPrefix(a, b) == Len(a) <= Len(b) /\ SubSeq(b, 1, Len(a)) = a

Consulted(transcript, settings) ==
    ~(/\ _explicit_category_signals(transcript) # {}
      /\ _rule_based_items_from_transcript(transcript, settings) # <<>>)

\* C15: on every transcript the splitter returns at least one item, and when
\* the call of the language model raises it returns exactly the one item
\* (no category, the whole transcript).
C15_SplitReturnsItems ==
    pout.op = "split" =>
        /\ ~pout.raised
        /\ Len(pout.items) >= 1
        /\ (pin.llm.raised /\ Consulted(pin.transcript, load_settings(pin.book)))
           => pout.items = <<Item("", pin.transcript, "")>>

\* b occurs in a as a run of tokens
ContainsText(a, b) == \E i \in 1..(Len(a) - Len(b) + 1) : SubSeq(a, i, i + Len(b) - 1) = b

\* C16: a transcript with the keywords of exactly one of the families task,
\* idea and expense yields exactly one item, whose text holds the whole transcript.
C16_OneSignalOneItem ==
    (pout.op = "split" /\ ~pout.raised
     /\ Cardinality(_explicit_category_signals(pin.transcript)) = 1)
    => /\ Len(pout.items) = 1
       /\ ContainsText(pout.items[1].text, pin.transcript)

(***************************************************************************)
(* IntentService.detect as a function of the transcript and of the answer  *)
(* of the language model                                                   *)
(***************************************************************************)
IntentTexts ==
    {<<"udali", "zadachu", "kofe">>,
     <<"Udali", "zadachu", "?">>,
     <<"skolko", "udalit">>,
     <<"skolko", "kofe", "?">>,
     <<"kupil", "kofe", "?">>,
     <<"chto", "kupit">>,
     <<" ", "nuzhno", "li", "kupit">>,
     <<"nuzhno", "kupit">>,
     <<"kupit", "chto">>,
     <<"nikogda", "kupil">>,
     <<"kupil", "kofe">>,
     <<"privet">>}

\* the answers of chat_json: in the enumeration, out of it, in capitals, raising
IntentReplies ==
    IntentAnswers
    \cup {[raised |-> "no", action |-> "ask", query |-> <<" ", "kofe">>],
          [raised |-> "no", action |-> "ASK", query |-> <<>>],
          [raised |-> "no", action |-> "search", query |-> <<"kofe">>],
          [raised |-> "no", action |-> "", query |-> <<>>]}

DetectCalls == [op : {"detect"}, text : IntentTexts, llm : IntentReplies]

InitIntent ==
    /\ fsm = Idle
    /\ data = NoData
    /\ sheets = Book(Catalogue, ProcheePlain)
    /\ last = [h |-> "init", ev |-> <<>>]
    /\ pin \in DetectCalls
    /\ pout = NoCall

Detect ==
    /\ pin.op = "detect"
    /\ pout.op = "none"
    /\ pout' = [op |-> "detect", v |-> detect(pin.text, pin.llm)]
    /\ UNCHANGED <<fsm, data, sheets, last, pin>>

NextIntent == Detect

SpecIntent == InitIntent /\ [][NextIntent]_vars

\* a word of the transcript holds one of the delete verbs
HasDeleteVerb(t) == \E i \in 1..Len(t) : Keywords(Lower(t[i])) \cap DeleteVerbs # {}

\* a question mark, an interrogative word, or an interrogative lead
HasQuestionSignal(t) ==
    \/ \E i \in 1..Len(t) : t[i] = "?" \/ Keywords(Lower(t[i])) \cap QuestionWords # {}
    \/ LeadsQuestion(LStrip(t))

\* C21: a transcript with a delete verb gives delete, whatever else it holds;
\* any other transcript with a question signal gives ask; in both cases the
\* answer of the language model, a raising call included, has no part in the
\* result.
C21_HeuristicFirst ==
    pout.op = "detect" =>
        /\ HasDeleteVerb(pin.text) =>
               pout.v = [raised |-> "no", action |-> "delete", query |-> pin.text]
        /\ (~HasDeleteVerb(pin.text) /\ HasQuestionSignal(pin.text)) =>
               pout.v = [raised |-> "no", action |-> "ask", query |-> pin.text]

\* a transcript with a delete verb and a question mark, with a raising call
C21_Witness ==
    /\ pout.op = "detect"
    /\ HasDeleteVerb(pin.text)
    /\ \E i \in 1..Len(pin.text) : pin.text[i] = "?"
    /\ pin.llm.raised # "no"
    /\ pout.v.action = "delete"

\* C22: detect always returns one of add, delete, ask, and ask only for a
\* transcript with a question signal.
C22_ActionInEnum ==
    pout.op = "detect" =>
        /\ pout.v.raised = "no"
        /\ pout.v.action \in {"add", "delete", "ask"}
        /\ pout.v.action = "ask" => HasQuestionSignal(pin.text)

(***************************************************************************)
(* The extraction of a row and its two post-processing passes, in the      *)
(* order of handle_voice, lines 237-246, as functions of the headers, the  *)
(* answer of the language model and the transcript                         *)
(***************************************************************************)
RowHeaders ==
    {<< <<"Data">>, <<"Sut">>, <<"Prioritet", "*">> >>,
     << <<"data", "dobavleniya">>, <<"data", "vypolneniya">>, <<"Sut">>,
        <<"syroj", "tekst">> >>,
     << <<"Sut">>, <<"sut">> >>,
     << <<"Sut", "*">> >>}

\* the objects the model answers: a sequence of <<key, value>> pairs
RowReplies ==
    {[raised |-> "json", data |-> <<>>],
     [raised |-> "no", data |-> <<>>],
     [raised |-> "no", data |-> << << <<"Sut">>, <<"kofe">> >> >>],
     [raised |-> "no", data |-> << << <<"sut", " ">>, <<"kupil", "kofe">> >>,
                                  << <<"Prioritet">>, <<"Vysokij">> >> >>],
     [raised |-> "no", data |-> << << <<"Data">>, <<"01.02.2026">> >>,
                                  << <<"data", "dobavleniya">>, <<"01.02.2026">> >>,
                                  << <<"data", "vypolneniya">>, <<"04.02.2026">> >>,
                                  << <<"Sut">>, <<"kofe">> >> >>],
     [raised |-> "no", data |-> << << <<"Sut">>, <<"kofe">> >>, << <<"sut">>, <<>> >> >>],
     [raised |-> "no", data |-> << << <<"Unknown">>, <<"kofe">> >>,
                                  << <<"Data">>, <<" ">> >> >>],
     [raised |-> "no", data |-> << << <<"syroj", "tekst">>, <<"kofe">> >>,
                                  << <<"Sut">>, <<" ">> >> >>]}

RowTranscripts ==
    {<<"kupil", "kofe">>,
     <<"nuzhno", "kupit", "kofe", "zavtra">>,
     <<"kupil", "zavtrak">>,
     <<"kupit", "kofe", "01.02.2026", "poslezavtra">>}

ExtractCalls ==
    [op : {"extract"}, headers : RowHeaders, llm : RowReplies, transcript : RowTranscripts]

InitRow ==
    /\ fsm = Idle
    /\ data = NoData
    /\ sheets = Book(Catalogue, ProcheePlain)
    /\ last = [h |-> "init", ev |-> <<>>]
    /\ pin \in ExtractCalls
    /\ pout = NoCall

\* extract_row on the cleaned headers (handle_voice, lines 237-244)
ExtractRow ==
    /\ pin.op = "extract"
    /\ pout.op = "none"
    /\ pout' = [op  |-> "extract",
                got |-> extract_row([i \in 1..Len(pin.headers) |->
                                        _clean_header(pin.headers[i])],
                                    strftime(Today), pin.llm)]
    /\ UNCHANGED <<fsm, data, sheets, last, pin>>

\* _apply_text_fields on the extracted row (line 245)
ApplyTextFields ==
    /\ pout.op = "extract"
    /\ pout.got.raised = "no"
    /\ pout' = [op |-> "text", before |-> pout.got.row,
                row |-> _apply_text_fields(pin.headers, pout.got.row, pin.transcript)]
    /\ UNCHANGED <<fsm, data, sheets, last, pin>>

\* _apply_date_fields on the row of the text pass (line 246)
ApplyDateFields ==
    /\ pout.op = "text"
    /\ pout' = [op |-> "date", before |-> pout.row,
                row |-> _apply_date_fields(pin.headers, pout.row, pin.transcript, Today)]
    /\ UNCHANGED <<fsm, data, sheets, last, pin>>

NextRow ==
    \/ ExtractRow
    \/ ApplyTextFields
    \/ ApplyDateFields

SpecRow == InitRow /\ [][NextRow]_vars

\* the headers as extract_row receives them
CleanHeaders(headers) == [i \in 1..Len(headers) |-> _clean_header(headers[i])]

\* no two different headers have the same lower-cased form
Unambiguous(headers) ==
    \A i, j \in 1..Len(headers) :
        LowerText(Strip(headers[i])) = LowerText(Strip(headers[j])) => headers[i] = headers[j]

\* the value of the last pair of the answer whose key is `header` up to case
\* and surrounding white space; <<>> when there is none
ModelValue(pairs, header) ==
    With(Highest({i \in 1..Len(pairs) :
                     LowerText(Strip(pairs[i][1])) = LowerText(Strip(header))}),
         LAMBDA i : IF i = 0 THEN <<>> ELSE pairs[i][2])

C24_SummaryDiffers ==
    pout.op = "text" =>
        /\ _find_header_index(pin.headers, RawNames) # 0 =>
               pout.row[_find_header_index(pin.headers, RawNames)] = pin.transcript
        /\ _find_header_index(pin.headers, SummaryNames) # 0 =>
               /\ Strip(pout.row[_find_header_index(pin.headers, SummaryNames)]) # <<>>
               /\ _normalize_text(pout.row[_find_header_index(pin.headers, SummaryNames)])
                      # _normalize_text(pin.transcript)

\* the date a transcript asks for: the explicit date, else the relative word
\* (segodnya, zavtra, poslezavtra as whole words), else 0
ExplicitIn(t) ==
    Lowest({d \in 1..Len(Calendar) : \E i \in 1..Len(t) : t[i] \in {Calendar[d], CalendarIso[d]}})

RelativeIn(t) ==
    IF \E i \in 1..Len(t) : Lower(t[i]) = "poslezavtra" THEN Today + 2
    ELSE IF \E i \in 1..Len(t) : Lower(t[i]) = "zavtra" THEN Today + 1
    ELSE IF \E i \in 1..Len(t) : Lower(t[i]) = "segodnya" THEN Today
    ELSE 0

\* C25: after the date pass the added-on column holds today's date, and a
\* due or date column holds the explicit date of the transcript, else the date
\* of its relative expression, else what it held before the pass.
C25_DatesResolved ==
    pout.op = "date" =>
        \A i \in 1..Len(pin.headers) :
            /\ HeaderKey(pin.headers[i]) \in AddedDateNames =>
                   pout.row[i] = strftime(Today)
            /\ HeaderKey(pin.headers[i]) \in TargetDateNames =>
                   pout.row[i] = IF ExplicitIn(pin.transcript) # 0
                                 THEN strftime(ExplicitIn(pin.transcript))
                                 ELSE IF RelativeIn(pin.transcript) # 0
                                 THEN strftime(RelativeIn(pin.transcript))
                                 ELSE pout.before[i]

(***************************************************************************)
(* DeleteService.find_candidates as a function of the workbook, the query  *)
(* and the limit                                                           *)
(***************************************************************************)
\* 01.02.2026 is yesterday, 02.02.2026 today
DeleteZadachi ==
    << << <<"Data">>, <<"Sut">>, <<"Prioritet", "*">> >>,
       << <<"01.02.2026">>, <<"kupit", "kofe">>, <<"Vysokij">> >>,
       << <<"01.02.2026">>, <<"proverit", "pochtu">>, <<>> >>,
       << <<>>, <<" ">>, <<>> >>,
       << <<"02.02.2026">>, <<"kupit", "kofe", "moloko">>, <<>> >>,
       << <<>>, <<"kofe">>, <<>> >> >>

DeleteTraty ==
    << << <<"Data">>, <<"Sut">> >>,
       << <<"2026-02-01">>, <<"kofe">> >>,
       << <<"31.01.2026">>, <<"moloko">> >> >>

DeleteBook(zadachi, traty) ==
    [n \in {"Settings", "Zadachi", "Traty", "Inbox"} |->
        CASE n = "Settings" -> SettingsSheet(Catalogue)
          [] n = "Zadachi"  -> zadachi
          [] n = "Traty"    -> traty
          [] OTHER          -> InboxSheet \o << << <<"01.02.2026">>, <<"Zadachi">>, <<"kofe">> >> >>]

DeleteBooks ==
    {DeleteBook(DeleteZadachi, DeleteTraty),
     DeleteBook(SubSeq(DeleteZadachi, 1, 3), SubSeq(DeleteTraty, 1, 1)),
     DeleteBook(SubSeq(DeleteZadachi, 1, 1), DeleteTraty)}

DeleteScenario == <<"udali", "vcherashnyuyu", "zadachu", "pro", "kofe">>

DeleteQueries ==
    {DeleteScenario,
     <<"udali", "kofe">>,
     <<"udali", "kofe", "moloko">>,
     <<"udali", "vchera">>,
     <<"udali", "zadachi">>,
     <<"udali">>,
     <<"udali", "traty", "za", "poslednie", "2", "dnya">>,
     <<"udali", "moloko", "segodnya">>,
     <<"udali", "pozavchera">>,
     <<"udali", "za", "poslednie", "3", "dnya">>}

DeleteLimits == {1, 2, DeleteLimit}

FindCalls == [op : {"find"}, book : DeleteBooks, query : DeleteQueries, limit : DeleteLimits]

\* the session in DeleteState.confirming after the query: the candidates of
\* find_candidates and the index picked
ConfirmSession(c) ==
    [candidates |-> find_candidates(c.book, c.query, Today, DeleteLimit),
     selected_index |-> c.index]

ConfirmCalls ==
    {c \in [op : {"confirm"}, book : DeleteBooks, query : DeleteQueries, index : 0..1,
            api : {"ok", "down", "inbox_read", "inbox_delete"}] :
        c.index < Len(find_candidates(c.book, c.query, Today, DeleteLimit))}

InitDelete ==
    /\ fsm = Idle
    /\ data = NoData
    /\ sheets = Book(Catalogue, ProcheePlain)
    /\ last = [h |-> "init", ev |-> <<>>]
    /\ pin \in FindCalls \cup ConfirmCalls
    /\ pout = NoCall

\* find_candidates, with the tokens and the filters it computes (lines 28-30)
FindCandidates ==
    /\ pin.op = "find"
    /\ pout.op = "none"
    /\ pout' = [op      |-> "find",
                tokens  |-> SelectSeq(_tokenize(pin.query),
                                      LAMBDA token : token \notin _STOP_WORDS),
                filters |-> _infer_filters(pin.query, Today),
                v       |-> find_candidates(pin.book, pin.query, Today, pin.limit)]
    /\ UNCHANGED <<fsm, data, sheets, last, pin>>

\* confirm_delete on the session of a query
ConfirmCandidate ==
    /\ pin.op = "confirm"
    /\ pout.op = "none"
    /\ pout' = [op  |-> "confirm",
                out |-> confirm_delete(DeleteConfirming, ConfirmSession(pin), pin.book, pin.api)]
    /\ UNCHANGED <<fsm, data, sheets, last, pin>>

\* del:confirm delivered once more after the run of confirm_delete: the
\* handler is filtered on DeleteState.confirming, in any other state the
\* callback reaches no handler
ConfirmAgain ==
    /\ pin.op = "confirm"
    /\ pout.op = "confirm"
    /\ pout' = [op    |-> "again",
                first |-> pout.out,
                out   |-> IF pout.out.fsm = DeleteConfirming
                          THEN confirm_delete(pout.out.fsm, pout.out.data, pout.out.book, "ok")
                          ELSE Out(pout.out.fsm, pout.out.data, pout.out.book, <<>>)]
    /\ UNCHANGED <<fsm, data, sheets, last, pin>>

NextDelete ==
    \/ FindCandidates
    \/ ConfirmCandidate
    \/ ConfirmAgain

SpecDelete == InitDelete /\ [][NextDelete]_vars

\* the three filters on a data row of a sheet
PassesDate(filters, headers, row) ==
    filters.start_date # 0 =>
        \E d \in filters.start_date..filters.end_date :
            \E c \in 1..Len(row) :
                /\ c <= Len(headers)
                /\ LowerText(Strip(headers[c])) \in DeleteDateNames
                /\ Strip(row[c]) \in {<<Calendar[d]>>, <<CalendarIso[d]>>}

PassesSheet(filters, name) ==
    filters.sheet_keywords # {} => Keywords(Lower(name)) \cap filters.sheet_keywords # {}

\* some token of the query occurs in a cell or in a header of the row
PassesTokens(tokens, headers, row) ==
    tokens # <<>> =>
        \E i \in 1..Len(tokens) :
            \/ \E c \in 1..Len(row) : \E k \in 1..Len(row[c]) : tokens[i] \in Substrings(row[c][k])
            \/ \E c \in 1..Len(headers) :
                   \E k \in 1..Len(headers[c]) : tokens[i] \in Substrings(headers[c][k])

\* C26: for the query «udali vcherashnyuyu zadachu pro kofe» the date filter
\* is yesterday, the sheet filter is the task family and the tokens are
\* exactly {kofe}; and every candidate passes the date filter, the sheet
\* filter and the token filter.
C26_ThreeFilters ==
    pout.op = "find" =>
        /\ pin.query = DeleteScenario =>
               /\ pout.filters.start_date = Today - 1
               /\ pout.filters.end_date = Today - 1
               /\ pout.filters.sheet_keywords = {"zadach", "task"}
               /\ {pout.tokens[i] : i \in 1..Len(pout.tokens)} = {"kofe"}
        /\ \A i \in 1..Len(pout.v) :
               /\ PassesDate(pout.filters, pout.v[i].headers, pout.v[i].row_values)
               /\ PassesSheet(pout.filters, pout.v[i].sheet_name)
               /\ PassesTokens(pout.tokens, pout.v[i].headers, pout.v[i].row_values)

\* the score find_candidates sorts a row by
RowScore(tokens, headers, row) ==
    IF tokens = <<>> THEN 1
    ELSE Cardinality({i \in 1..Len(tokens) :
             \/ \E c \in 1..Len(row) : \E k \in 1..Len(row[c]) : tokens[i] \in Substrings(row[c][k])
             \/ \E c \in 1..Len(headers) :
                    \E k \in 1..Len(headers[c]) : tokens[i] \in Substrings(headers[c][k])})

\* the rows that qualify: <<sheet, position>>
Qualifying(book, tokens, filters) ==
    {sr \in (DOMAIN book \ {"Settings", "Inbox"}) \X (2..6) :
        /\ sr[2] <= Len(book[sr[1]])
        /\ \E c \in 1..Len(book[sr[1]][sr[2]]) : Strip(book[sr[1]][sr[2]][c]) # <<>>
        /\ PassesSheet(filters, sr[1])
        /\ PassesDate(filters, book[sr[1]][1], book[sr[1]][sr[2]])
        /\ PassesTokens(tokens, book[sr[1]][1], book[sr[1]][sr[2]])
        /\ (tokens = <<>> => (filters.start_date # 0 \/ filters.sheet_keywords # {}))}

Returned(v) == {<<v[i].sheet_name, v[i].row_index>> : i \in 1..Len(v)}

\* C27: find_candidates returns at most `limit` candidates, all qualifying,
\* in non-increasing order of score, and no qualifying row left out has a
\* higher score than a returned one.
C27_TopByScore ==
    pout.op = "find" =>
        /\ Len(pout.v) <= pin.limit
        /\ Returned(pout.v) \subseteq Qualifying(pin.book, pout.tokens, pout.filters)
        /\ \A i, j \in 1..Len(pout.v) :
               i < j => RowScore(pout.tokens, pout.v[i].headers, pout.v[i].row_values)
                        >= RowScore(pout.tokens, pout.v[j].headers, pout.v[j].row_values)
        /\ \A sr \in Qualifying(pin.book, pout.tokens, pout.filters) \ Returned(pout.v) :
               \A i \in 1..Len(pout.v) :
                   RowScore(pout.tokens, pin.book[sr[1]][1], pin.book[sr[1]][sr[2]])
                   <= RowScore(pout.tokens, pout.v[i].headers, pout.v[i].row_values)

\* the limit is reached, a qualifying row is left out, and the row of the
\* highest score, which is not the first in sheet order, comes first
C27_Witness ==
    /\ pout.op = "find"
    /\ Len(pout.v) = pin.limit
    /\ Qualifying(pin.book, pout.tokens, pout.filters) \ Returned(pout.v) # {}
    /\ pout.v[1].row_index > 2
    /\ RowScore(pout.tokens, pout.v[1].headers, pout.v[1].row_values) = 2

\* the primary deletes of a run
Deletes(ev) == {i \in 1..Len(ev) : ev[i].k = "delete"}

\* C28: when the row of the sheet is deleted and its Inbox entry is not found,
\* or the read or the delete of it fails, the run reports the delete as done
\* with the Inbox miss noted and clears the session.
C28_DeleteStands ==
    (pout.op = "confirm" /\ Deletes(pout.out.ev) # {}
     /\ ~Shows(pout.out.ev, {"deleted_both"}))
    => /\ Shows(pout.out.ev, {"deleted_sheet"})
       /\ pout.out.fsm = Idle
       /\ DOMAIN pout.out.data = {}

\* C29: _find_duplicate reports the newest matching row among the last 50
\* data rows of the sheet, and nothing when none of them matches, when the
\* sheet has no data row or when it cannot be read; a matching row older than
\* the last 50 is never reported.  The result is the position of the row in
\* the sheet, the header row being 1.
C29_RecentNewestFirst ==
    pout.op = "scan" =>
        pout.v = IF pin.readable /\ {h \in pin.hits : h > pin.n - DupLimit} # {}
                 THEN 1 + Highest({h \in pin.hits : h > pin.n - DupLimit})
                 ELSE 0

\* 52 data rows, matches at the rows 2, 10 and 51: the row 2 is older than the
\* last 50, and of the two recent matches the newer one is reported
C29_Witness ==
    /\ pout.op = "scan"
    /\ pin.readable
    /\ pin.n = DupLimit + 2
    /\ pin.hits = {2, 10, 51}
    /\ pout.v = 52

(***************************************************************************)
(* voice.py: the reply to the prompt for the mandatory fields.             *)
(* The separators ";", "\n", ":", "=" are tokens of their own; "-" is the  *)
(* hyphen between two spaces.   srok = срок                                *)
(***************************************************************************)
\* [part.strip() for part in text.split(sep) if part.strip()]
KvParts(t, sep) ==
    With(Pieces(t, {i \in 1..Len(t) : t[i] = sep}, [i \in 1..Len(t) |-> 1]), LAMBDA ps :
        SelectSeq([i \in 1..Len(ps) |-> Strip(ps[i])], LAMBDA q : q # <<>>))

KvLines(text) ==
    With(KvParts(text, ";"), LAMBDA parts :
        Concat([i \in 1..Len(parts) |-> KvParts(parts[i], "\n")]))

\* the separator the line is split at, "" when it has none
KvSep(line) ==
    IF PosIn(line, ":") # 0 THEN ":"
    ELSE IF PosIn(line, "=") # 0 THEN "="
    ELSE IF PosIn(line, "-") # 0 THEN "-"
    ELSE ""

\* _display_header(key).lower() and value.strip() of line.split(sep, 1)
KvKey(line)   == LowerText(_display_header(SubSeq(line, 1, PosIn(line, KvSep(line)) - 1)))
KvValue(line) == Strip(SubSeq(line, PosIn(line, KvSep(line)) + 1, Len(line)))

KvHits(lines, header_map) ==
    {i \in 1..Len(lines) : KvSep(lines[i]) # "" /\ KvKey(lines[i]) \in DOMAIN header_map}

\* the dict {idx: value}; a later line overwrites an earlier one
_parse_key_values(text, header_map) ==
    With(KvLines(text), LAMBDA lines :
        [idx \in {header_map[KvKey(lines[i])] : i \in KvHits(lines, header_map)} |->
            KvValue(lines[Highest({i \in KvHits(lines, header_map) :
                                      header_map[KvKey(lines[i])] = idx})])])

\* {name.lower(): idx for idx, name in required}
RequiredMap(required) ==
    [k \in {LowerText(required[j][2]) : j \in 1..Len(required)} |->
        required[Highest({j \in 1..Len(required) : LowerText(required[j][2]) = k})][1]]

\* handle_required_fields, the update of the row by the reply `text`
RequiredUpdate(headers, row, text) ==
    With2(_get_missing_required(headers, row),
          _parse_key_values(text, RequiredMap(_get_missing_required(headers, row))),
          LAMBDA required, updates :
             IF DOMAIN updates = {} /\ Len(required) = 1
             THEN [row EXCEPT ![required[1][1]] = text]
             ELSE [i \in 1..Len(row) |-> IF i \in DOMAIN updates THEN updates[i] ELSE row[i]])

ReplyHeaders == << <<"Sut">>, <<"Prioritet", "*">>, <<"Srok", "*">> >>

ReplyRows ==
    { << <<"kofe">>, <<>>, <<>> >>,
      << <<"kofe">>, <<"nizkij">>, <<>> >>,
      << <<"kofe">>, <<>>, <<"zavtra">> >> }

ReplyFields == { <<"Prioritet">>, <<"prioritet", "*">>, <<"Srok">>, <<"Sut">>, <<"Avtor">> }
ReplySeps   == { ":", "=", "-" }
ReplyValues == { <<"vysokij">>, <<"12", ":", "30">>, <<"a", "=", "b">> }

ReplyPairs == [field : ReplyFields, sep : ReplySeps, value : ReplyValues]

PairText(p) == p.field \o <<p.sep>> \o p.value

\* one pair, or two pairs joined by ";" or by a newline
ReplyCalls ==
    [op : {"reply"}, row : ReplyRows, pairs : {<<p>> : p \in ReplyPairs}, join : {";"}]
    \cup [op : {"reply"}, row : ReplyRows,
          pairs : {<<p, q>> : p \in {r \in ReplyPairs : r.field = <<"Prioritet">>},
                              q \in {r \in ReplyPairs : r.field # <<"Prioritet">> /\ r.sep = "="}},
          join : {";", "\n"}]

ReplyText(c) ==
    IF Len(c.pairs) = 1 THEN PairText(c.pairs[1])
    ELSE PairText(c.pairs[1]) \o <<c.join>> \o PairText(c.pairs[2])

InitReply ==
    /\ fsm = Idle
    /\ data = NoData
    /\ sheets = Book(Catalogue, ProcheePlain)
    /\ last = [h |-> "init", ev |-> <<>>]
    /\ pin \in ReplyCalls
    /\ pout = NoCall

\* the reply is parsed and the row of the session updated
RequiredReply ==
    /\ pin.op = "reply"
    /\ pout.op = "none"
    /\ pout' = [op  |-> "reply",
                row |-> RequiredUpdate(ReplyHeaders, pin.row, ReplyText(pin))]
    /\ UNCHANGED <<fsm, data, sheets, last, pin>>

NextReply == RequiredReply

SpecReply == InitReply /\ [][NextReply]_vars

\* the cell a pair names among the missing mandatory cells of the row, 0 for none
NamedCell(row, pair) ==
    Lowest({i \in 1..Len(ReplyHeaders) :
              /\ IsMandatory(ReplyHeaders[i])
              /\ row[i] = <<>>
              /\ HeaderKey(ReplyHeaders[i]) = HeaderKey(pair.field)})

\* C31: a structured reply updates exactly the missing mandatory fields it
\* names: the cell named by a pair holds the whole value of the last pair
\* naming it, and a cell no pair names keeps its value.
C31_PairsUpdateNamedCells ==
    pout.op = "reply" =>
        \A i \in 1..Len(ReplyHeaders) :
            IF \E j \in 1..Len(pin.pairs) : NamedCell(pin.row, pin.pairs[j]) = i
            THEN pout.row[i] = pin.pairs[Highest({j \in 1..Len(pin.pairs) :
                                          NamedCell(pin.row, pin.pairs[j]) = i})].value
            ELSE pout.row[i] = pin.row[i]

\* the keys of the catalogue of the workbook
CatalogueKeys(book) == {load_settings(book)[k] : k \in 1..Len(load_settings(book))}

\* C32: a row is only ever appended to a sheet named by a key of the
\* category catalogue (the audit sheet Inbox apart).
C32_AppendsToCatalogue ==
    \A i \in Commits(last.ev) : last.ev[i].v[1] \in CatalogueKeys(sheets)

\* C33: a row is a delete candidate exactly when it qualifies: its sheet is
\* not reserved and passes the sheet filter, the row is not blank, its date
\* lies inside the date filter, and a token of the query occurs in it or,
\* with no token, a filter is present.  Every candidate returned qualifies,
\* below the limit every qualifying row is returned, and a query with no
\* token and no filter has no candidate.
C33_CandidateIffQualifies ==
    pout.op = "find" =>
        /\ Returned(pout.v) \subseteq Qualifying(pin.book, pout.tokens, pout.filters)
        /\ Len(pout.v) < pin.limit =>
               Returned(pout.v) = Qualifying(pin.book, pout.tokens, pout.filters)
        /\ (pout.tokens = <<>> /\ pout.filters.start_date = 0
            /\ pout.filters.sheet_keywords = {}) => pout.v = <<>>

\* «udali vchera»: no token, the date filter alone; the three rows dated
\* yesterday are the candidates, the rows of Inbox and of other dates are not
C33_Witness ==
    /\ pout.op = "find"
    /\ pin.query = <<"udali", "vchera">>
    /\ pin.limit = DeleteLimit
    /\ pout.tokens = <<>>
    /\ Returned(pout.v) = {<<"Zadachi", 2>>, <<"Zadachi", 3>>, <<"Traty", 2>>}

\* the phrase of the query: a word of it is w
Says(query, w) == \E i \in 1..Len(query) : Lower(query[i]) = w

\* C34: each relative date phrase of a delete query selects its own window:
\* yesterday the day before today, the day before yesterday the day two days
\* before today, today the day itself, the last N days the N days that end
\* today; and with a date filter present no candidate lacks a date.
C34_RelativeWindows ==
    pout.op = "find" =>
        /\ Says(pin.query, "vchera") =>
               pout.filters.start_date = Today - 1 /\ pout.filters.end_date = Today - 1
        /\ Says(pin.query, "pozavchera") =>
               pout.filters.start_date = Today - 2 /\ pout.filters.end_date = Today - 2
        /\ Says(pin.query, "segodnya") =>
               pout.filters.start_date = Today /\ pout.filters.end_date = Today
        /\ \A n \in 2..3 :
               (Says(pin.query, "poslednie") /\ \E i \in 1..Len(pin.query) : NumberOf(pin.query[i]) = n)
               => pout.filters.start_date = Today - (n - 1) /\ pout.filters.end_date = Today
        /\ pout.filters.start_date # 0 =>
               \A i \in 1..Len(pout.v) :
                   PassesDate(pout.filters, pout.v[i].headers, pout.v[i].row_values)

\* the messages with which handle_voice suspends the session on its utterance
SuspendTexts == {"delete_list", "thinking_prompt", "pick_category"}

\* C35: the context of the session is that of the most recent utterance: when
\* a voice message arrives while the session is suspended, the run of
\* handle_voice leaves the session suspended on the new utterance or Idle
\* with no data, so that no later reply acts on the earlier one.
C35_NewestUtteranceOwnsSession ==
    [][(last'.h = "handle_voice"
        /\ fsm \in {RequiredWaiting, DuplicateConfirming, CategorySelecting,
                    DeleteSelecting, DeleteConfirming})
       => \/ Shows(last'.ev, SuspendTexts)
          \/ fsm' = Idle /\ data' = NoData]_vars

\* the candidate of the session that del:confirm acts on
Picked(c) == ConfirmSession(c).candidates[c.index + 1]

\* the sheet without its row at position i
Without(rows, i) == [j \in 1..(Len(rows) - 1) |-> IF j < i THEN rows[j] ELSE rows[j + 1]]

\* C36: row_index is the position of the candidate's row in its sheet, the
\* header row being 1; with the sheet as find_candidates read it, del:confirm
\* removes the row whose values were previewed and no other row of the sheet.
C36_ConfirmRemovesPreviewed ==
    /\ pout.op = "find" =>
           \A i \in 1..Len(pout.v) :
               /\ pout.v[i].row_index \in 2..Len(pin.book[pout.v[i].sheet_name])
               /\ pin.book[pout.v[i].sheet_name][pout.v[i].row_index] = pout.v[i].row_values
    /\ (pout.op = "confirm" /\ pin.api # "down") =>
           /\ pin.book[Picked(pin).sheet_name][Picked(pin).row_index] = Picked(pin).row_values
           /\ pout.out.book[Picked(pin).sheet_name]
                  = Without(pin.book[Picked(pin).sheet_name], Picked(pin).row_index)
    /\ (pout.op = "confirm" /\ pin.api = "down") => pout.out.book = pin.book

\* the second candidate of «udali kofe» is confirmed: a row in the middle of
\* its sheet, with rows after it
C36_Witness ==
    /\ pout.op = "confirm"
    /\ pin.api = "ok"
    /\ pin.index = 1
    /\ Picked(pin).row_index \in 3..(Len(pin.book[Picked(pin).sheet_name]) - 1)
    /\ Len(pout.out.book[Picked(pin).sheet_name]) = Len(pin.book[Picked(pin).sheet_name]) - 1

\* C37: after a confirm that deleted a row the session is cleared, and a
\* del:confirm delivered again for the same list deletes no further row.
C37_ConfirmOnce ==
    (pout.op = "again" /\ Deletes(pout.first.ev) # {}) =>
        /\ pout.first.fsm = Idle
        /\ Deletes(pout.out.ev) = {}
        /\ pout.out.book = pout.first.book

NamedStates ==
    {Idle, RequiredWaiting, DuplicateConfirming, CategorySelecting, ThinkingWaiting,
     DeleteSelecting, DeleteConfirming}

\* the step taken ends a suspended flow: a cancel, the save or the discard of
\* a long message, a failed category pick, a delete confirm on a candidate
EndsFlow(h, ev) ==
    \/ h \in CancelHandlers
    \/ h = "handle_thinking_choice" /\ ~Shows(ev, {"unknown_action"})
    \/ h = "pick_category" /\ Shows(ev, {"pick_failed"})
    \/ h = "confirm_delete" /\ ~Shows(ev, {"bad_choice"})

\* C38: the session is always in one of the named states, and every step
\* that ends a suspended flow leaves it Idle with empty data, also when a
\* call to the workbook fails in that step.
C38_EndingStepClears ==
    /\ [](fsm \in NamedStates)
    /\ [][EndsFlow(last'.h, last'.ev) => (fsm' = Idle /\ DOMAIN data' = {})]_vars

(***************************************************************************)
(* utils/auth.py and handlers/settings.py: who may change what.            *)
(* A user is [id, username]; the FSM storage keeps one state per user id.  *)
(* otmena = отмена                                                         *)
(***************************************************************************)
\* from_user is None
NoUser == [id |-> 0, username |-> ""]

is_allowed(user, allowed_user_ids, allowed_usernames) ==
    IF allowed_user_ids = {} /\ allowed_usernames = {} THEN TRUE
    ELSE IF user = NoUser THEN FALSE
    ELSE IF allowed_user_ids # {} /\ user.id \notin allowed_user_ids THEN FALSE
    ELSE IF allowed_usernames # {} /\ Lower(user.username) \notin allowed_usernames THEN FALSE
    ELSE TRUE

EditingDailyTime == "SettingsState:editing_daily_time"

\* the session of the bot: the user of the update handled last, the FSM
\* state of every user, the bot settings
Bot(user, state, settings) == [op |-> "auth", user |-> user, state |-> state, settings |-> settings]

_is_cancel(text) == Lower(text) \in {"otmena", "cancel", "nazad", "back"}

_is_valid_time(value) == value \in {"08:30", "21:00"}

\* the button summary:toggle_daily
toggle_daily(s, user, ids, names) ==
    IF ~is_allowed(user, ids, names) THEN Bot(user, s.state, s.settings)
    ELSE Bot(user, s.state, [s.settings EXCEPT !.daily_enabled = ~@])

\* the button summary:daily_time
edit_daily_time(s, user, ids, names) ==
    IF ~is_allowed(user, ids, names) THEN Bot(user, s.state, s.settings)
    ELSE Bot(user, [s.state EXCEPT ![user.id] = EditingDailyTime], s.settings)

\* a text message in SettingsState.editing_daily_time
save_daily_time(s, user, text) ==
    IF _is_cancel(text) THEN Bot(user, [s.state EXCEPT ![user.id] = Idle], s.settings)
    ELSE IF ~_is_valid_time(text) THEN Bot(user, s.state, s.settings)
    ELSE Bot(user, [s.state EXCEPT ![user.id] = Idle],
             [s.settings EXCEPT !.daily_time = text])

AuthIds == {1, 2}
AuthUsers == [id : AuthIds, username : {"Alice", "bob", ""}]
AuthTexts == {"08:30", "21:00", "25:00", "OTMENA"}

AuthCalls == [op : {"auth"}, ids : {{}, {1}}, names : {{}, {"alice"}}]

InitAuth ==
    /\ fsm = Idle
    /\ data = NoData
    /\ sheets = Book(Catalogue, ProcheePlain)
    /\ last = [h |-> "init", ev |-> <<>>]
    /\ pin \in AuthCalls
    /\ pout = Bot(NoUser, [i \in AuthIds |-> Idle],
                  [daily_enabled |-> TRUE, daily_time |-> "21:00"])

ToggleDaily ==
    /\ \E user \in AuthUsers \cup {NoUser} :
          pout' = toggle_daily(pout, user, pin.ids, pin.names)
    /\ UNCHANGED <<fsm, data, sheets, last, pin>>

EditDailyTime ==
    /\ \E user \in AuthUsers :
          pout' = edit_daily_time(pout, user, pin.ids, pin.names)
    /\ UNCHANGED <<fsm, data, sheets, last, pin>>

\* the handler is filtered on the state of the sender
SaveDailyTime ==
    /\ \E user \in AuthUsers, text \in AuthTexts :
          /\ pout.state[user.id] = EditingDailyTime
          /\ pout' = save_daily_time(pout, user, text)
    /\ UNCHANGED <<fsm, data, sheets, last, pin>>

NextAuth ==
    \/ ToggleDaily
    \/ EditDailyTime
    \/ SaveDailyTime

SpecAuth == InitAuth /\ [][NextAuth]_vars

\* the user is inside the allow-lists: inside each list that is not empty
Inside(user, ids, names) ==
    \/ ids = {} /\ names = {}
    \/ /\ user # NoUser
       /\ ids = {} \/ user.id \in ids
       /\ names = {} \/ Lower(user.username) \in names

\* C39: no handler changes the state of a session or the bot settings on an
\* update of a user outside the allow-lists.
C39_OutsidersChangeNothing ==
    [][(pout'.state # pout.state \/ pout'.settings # pout.settings)
       => Inside(pout'.user, pin.ids, pin.names)]_vars

(***************************************************************************)
(* scheduler.py and services/bot_settings_service.py.                      *)
(* The clock is a day and a poll of that day; day 1 is a Sunday.  The      *)
(* settings file is [summary_chat_id, daily_enabled, daily_time,           *)
(* weekly_enabled, weekly_day, weekly_time, last_daily_sent,               *)
(* last_weekly_sent]; a date is the number of its day, 0 for "".           *)
(***************************************************************************)
poll_seconds == 30

WEEKDAY_MAP ==
    [d \in {"mon", "tue", "wed", "thu", "fri", "sat", "sun"} |->
        CASE d = "mon" -> 0 [] d = "tue" -> 1 [] d = "wed" -> 2 [] d = "thu" -> 3
          [] d = "fri" -> 4 [] d = "sat" -> 5 [] OTHER -> 6]

SchedDays == {1, 2}
SchedMinutes == <<"20:59", "21:00", "21:01">>
PollsOfDay == Len(SchedMinutes) * (60 \div poll_seconds)

\* now.weekday() and now.strftime("%H:%M") of a poll
WeekdayOf(day) == (day + 5) % 7
TimeOf(tick) == SchedMinutes[(tick \div (60 \div poll_seconds)) + 1]

\* BotSettingsService.update, load and save in one piece
update(file, key, value) == [file EXCEPT ![key] = value]

\* the weekly part of one pass of the loop; settings is what the pass loaded
\* at its start, file the settings file now, sent what the pass has sent
PollWeekly(settings, file, day, time_str, io, sent) ==
    IF /\ settings.weekly_enabled
       /\ time_str = settings.weekly_time
       /\ settings.weekly_day \in DOMAIN WEEKDAY_MAP
       /\ WeekdayOf(day) = WEEKDAY_MAP[settings.weekly_day]
       /\ settings.last_weekly_sent # day
    THEN IF io.weekly = "send_raises" THEN [file |-> file, sent |-> sent]
         ELSE IF io.weekly = "update_raises"
         THEN [file |-> file, sent |-> Append(sent, <<"weekly", day>>)]
         ELSE [file |-> update(file, "last_weekly_sent", day),
               sent |-> Append(sent, <<"weekly", day>>)]
    ELSE [file |-> file, sent |-> sent]

\* one pass of the loop of scheduler_loop; io says what the calls of the pass
\* do: "ok", "send_raises" (the summary or send_message raises),
\* "update_raises" (the write of the settings file raises)
scheduler_poll(file, day, time_str, io) ==
    IF file.summary_chat_id = 0 THEN [file |-> file, sent |-> <<>>]
    ELSE IF /\ file.daily_enabled
            /\ time_str = file.daily_time
            /\ file.last_daily_sent # day
    THEN IF io.daily = "send_raises" THEN [file |-> file, sent |-> <<>>]
         ELSE IF io.daily = "update_raises"
         THEN [file |-> file, sent |-> << <<"daily", day>> >>]
         ELSE PollWeekly(file, update(file, "last_daily_sent", day), day, time_str, io,
                         << <<"daily", day>> >>)
    ELSE PollWeekly(file, file, day, time_str, io, <<>>)

MaxSends == 3

SchedCalls == [op : {"sched"}, chat : {0, 7}, weekly_enabled : BOOLEAN]

\* the bot as the scheduler sees it: the settings file, the copy a handler
\* loaded and has not yet saved, the clock, the summaries sent so far
Sched(file, pending, day, tick, log) ==
    [op |-> "sched", file |-> file, pending |-> pending, day |-> day, tick |-> tick,
     log |-> log]

InitSched ==
    /\ fsm = Idle
    /\ data = NoData
    /\ sheets = Book(Catalogue, ProcheePlain)
    /\ last = [h |-> "init", ev |-> <<>>]
    /\ pin \in SchedCalls
    /\ pout = Sched([summary_chat_id |-> pin.chat, daily_enabled |-> TRUE,
                     daily_time |-> "21:00", weekly_enabled |-> pin.weekly_enabled,
                     weekly_day |-> "sun", weekly_time |-> "21:00",
                     last_daily_sent |-> 0, last_weekly_sent |-> 0],
                    <<>>, 1, 0, <<>>)

\* one pass of the loop and the sleep after it
Poll ==
    /\ pout.day \in SchedDays
    /\ Len(pout.log) < MaxSends
    /\ \E daily \in {"ok", "send_raises", "update_raises"},
          weekly \in {"ok", "send_raises", "update_raises"} :
          With(scheduler_poll(pout.file, pout.day, TimeOf(pout.tick),
                              [daily |-> daily, weekly |-> weekly]),
               LAMBDA done :
                   pout' = Sched(done.file, pout.pending,
                                 IF pout.tick + 1 = PollsOfDay THEN pout.day + 1 ELSE pout.day,
                                 IF pout.tick + 1 = PollsOfDay THEN 0 ELSE pout.tick + 1,
                                 pout.log \o done.sent))
    /\ UNCHANGED <<fsm, data, sheets, last, pin>>

\* toggle_weekly: settings_service.update loads the file ...
ToggleLoad ==
    /\ pout.day \in SchedDays
    /\ pout.pending = <<>>
    /\ pout' = Sched(pout.file,
                     <<update(pout.file, "weekly_enabled", ~pout.file.weekly_enabled)>>,
                     pout.day, pout.tick, pout.log)
    /\ UNCHANGED <<fsm, data, sheets, last, pin>>

\* ... and saves its copy, in another thread of the pool
ToggleSave ==
    /\ pout.pending # <<>>
    /\ pout' = Sched(pout.pending[1], <<>>, pout.day, pout.tick, pout.log)
    /\ UNCHANGED <<fsm, data, sheets, last, pin>>

NextSched ==
    \/ Poll
    \/ ToggleLoad
    \/ ToggleSave

SpecSched == InitSched /\ [][NextSched]_vars

\* how many summaries of a kind were sent for a day
SentCount(log, kind, day) == Cardinality({i \in 1..Len(log) : log[i] = <<kind, day>>})

\* C40: the daily summary is sent at most once for a calendar day and the
\* weekly summary at most once for a matching weekday, however many passes
\* of the loop fall inside the configured minute and whatever raises in one.
C40_OncePerDay ==
    pout.op = "sched" =>
        \A day \in SchedDays :
            /\ SentCount(pout.log, "daily", day) <= 1
            /\ SentCount(pout.log, "weekly", day) <= 1

====
